---- MODULE Spec2Model ----
(***************************************************************************)
(* Predictive Maintenance Intelligence Hub: the role gate (app.py), the    *)
(* view-load handlers (components/*_tab.py), the chat and feedback         *)
(* handlers (components/chat_tab.py) and the maintenance schedule          *)
(* (components/engine_tab.py), with the audit ledger they write to.        *)
(*                                                                         *)
(* Python values are modelled as follows.                                  *)
(*  - An optional value (None or a value; an omitted keyword argument) is  *)
(*    a set with at most one element: None is {}, the value x is {x}.      *)
(*  - A YAML value of a role's `tabs` key is a record [t, v]: t is the     *)
(*    Python type ("str", "list", "none", "int") and v the content: for a  *)
(*    str the sequence of its chunks (a view name is one chunk, so the     *)
(*    substring test of `name in allowed` is a contiguous-chunk test), for *)
(*    a list its elements in configuration order.                          *)
(***************************************************************************)
EXTENDS Integers, Sequences, FiniteSets, TLC

VARIABLES
    policy,        \* content of governance/roles.yaml (the policy resource)
    user,          \* identity the resolver returns for this session's requests
    visible,       \* visible flag of the seven tabs, in all_tab_refs order
    user_display,  \* request_access_tab: the "Your account" markdown
    audit,         \* the audit ledger: events appended by audit_service.log_event
    sink_up,       \* whether the audit sink accepts an append
    chatbot,       \* chat_tab: the chat history shown (list of role/content dicts)
    msg_box,       \* chat_tab: the question textbox
    conv_id_state, \* app.py: per-session Genie conversation id
    source_label,  \* chat_tab: the "Answered by" markdown
    pending,       \* respond events queued by Gradio, oldest first
    running,       \* respond calls whose assistant call is in flight
    submitted,     \* number of chat submissions so far
    chat_order,    \* submission numbers of the CHAT events, in ledger order
    like_data,     \* the like/dislike event the browser is about to send, or None
    fleet,         \* engine table: the rows get_engine_latest_status returns
    telemetry,     \* the tables the analytic steps of the views are given
    derived,       \* the values the analytic steps derived from them
    sched_tbl,     \* engine_tab: the maintenance schedule table shown
    session,       \* what this session's environment can do: the results the
                   \* assistant may return, the number of questions asked,
                   \* and which way float rounding goes on a number written
                   \* half way between two results
    last           \* the most recent handler call: its inputs and what it returned

gate == <<policy, visible, user_display>>
chat == <<chatbot, msg_box, conv_id_state, source_label, pending, running, submitted,
          chat_order, like_data>>
engine == <<fleet, sched_tbl, telemetry, derived>>
vars == <<policy, user, visible, user_display, audit, sink_up, chat, engine, session, last>>

\* ---------------------------------------------------------------------------
\* Bounds of the model
\* ---------------------------------------------------------------------------
MaxTabsLen == 2      \* longest `tabs` list of a policy entry
MaxStrChunks == 2    \* longest `tabs` string, in chunks
MaxAudit == 2        \* ledger length at which handlers stop being called
MaxRows == 2         \* largest fetched table
MaxSubmits == 2      \* chat submissions of one session
MaxChatLen == 2      \* longest chat value handed to on_feedback
MaxEngines == 3      \* engines in the fleet table
MaxPoints == 21      \* cycles in the series of one heater
MaxCycles == 4       \* cycles in the sensor rows of one engine
MaxWindow == 3       \* largest rolling window
MaxFrac == 6         \* fractional digits of a number in a text
MaxTableRows == 27   \* rows of a table the assistant returns
MaxLoads == 2        \* loads of one view in a session

None == {}
Some(x) == {x}
The(o) == CHOOSE x \in o : TRUE

\* ---------------------------------------------------------------------------
\* Identities (auth_service.get_user_from_request returns a dict or None)
\* ---------------------------------------------------------------------------
NoUser == [present |-> FALSE, email |-> "", role |-> ""]

Users ==
    { [present |-> TRUE, email |-> "viewer@x", role |-> "viewer"],
      [present |-> TRUE, email |-> "guest@x", role |-> "no_access"],
      [present |-> TRUE, email |-> "ghost@x", role |-> "ghost"] }

Requests == Users \cup {NoUser}

\* ---------------------------------------------------------------------------
\* The policy resource
\* ---------------------------------------------------------------------------
TAB_NAMES ==
    <<"Overview", "CNC Analysis", "Engine Health", "Electrical Monitor",
      "Audit Log", "Admin">>

RegularTabs == 1..Len(TAB_NAMES)
RequestTab == Len(TAB_NAMES) + 1

EmptyList == [t |-> "list", v |-> <<>>]

SeqsUpTo(S, n) == UNION { [1..k -> S] : k \in 0..n }

ListNames == {"Overview", "Admin", "Bogus"}
StrChunks == {"all", "Overview"}

TabsValues ==
    { [t |-> "list", v |-> l] : l \in SeqsUpTo(ListNames, MaxTabsLen) }
    \cup { [t |-> "str", v |-> s] : s \in SeqsUpTo(StrChunks, MaxStrChunks) \ {<<>>} }
    \cup { [t |-> "none", v |-> <<>>], [t |-> "int", v |-> <<>>] }

\* An entry of `roles`: the role is absent, maps to null, maps to a dict
\* without a `tabs` key, or maps to a dict with a `tabs` value.
RoleEntries ==
    { [t |-> "absent", v |-> <<>>], [t |-> "null", v |-> <<>>],
      [t |-> "notabs", v |-> <<>>] } \cup TabsValues

PolicyRoles == {"no_access", "viewer"}

\* kind: "missing" (open raises), "unparseable" (safe_load raises),
\* "empty" (safe_load returns None), "noroles" (a dict without `roles`),
\* "ok" (a dict with a `roles` dict).
BadKinds == {"missing", "unparseable", "empty", "noroles"}

NoRoles == [r \in PolicyRoles |-> [t |-> "absent", v |-> <<>>]]

Policies ==
    { [kind |-> k, roles |-> NoRoles] : k \in BadKinds }
    \cup { [kind |-> "ok", roles |-> f] : f \in [PolicyRoles -> RoleEntries] }

\* a well-formed policy: no_access sees nothing, a viewer sees the Overview
DefaultPolicy ==
    [kind |-> "ok",
     roles |-> [r \in PolicyRoles |->
                  IF r = "viewer" THEN [t |-> "list", v |-> <<"Overview">>]
                  ELSE EmptyList]]

\* ---------------------------------------------------------------------------
\* The audit ledger (services/audit_service.py is not part of the sources;
\* log_event is modelled from its contract: one blocking append per call)
\* ---------------------------------------------------------------------------
Event(type, email, role, src, tables, text, rows, idx, liked) ==
    [action_type |-> type, user_email |-> email, user_role |-> role,
     ai_source |-> src, source_tables |-> tables, query_text |-> text,
     row_count |-> rows, message_index |-> idx, liked |-> liked]

\* a log_event that lets the failure of the sink reach its caller
LogEventRaising(ledger, ev, up) ==
    [raised |-> ~up, ledger |-> IF up THEN Append(ledger, ev) ELSE ledger]

\* audit_service.log_event(**event): appends the event to the sink; a failed
\* append is swallowed inside log_event and never raised to the caller.
LogEvent(ledger, ev, up) ==
    [raised |-> FALSE, ledger |-> IF up THEN Append(ledger, ev) ELSE ledger]

\* ---------------------------------------------------------------------------
\* View loads.  A fetch input f says what the db_service calls of one load
\* do: f.fail - one of them raises; f.rows - rows of the primary result set
\* (the one whose len() is logged); f.aux - rows of the other table the
\* handler derives values from.
\* ---------------------------------------------------------------------------
Fetches == [fail : BOOLEAN, rows : 0..MaxRows, aux : 0..1]

\* user["email"] if user else "unknown"
EmailOf(usr) == IF usr.present THEN usr.email ELSE "unknown"

\* user["role"] if user else "viewer"
RoleOf(usr) == IF usr.present THEN usr.role ELSE "viewer"

\* What a load handler returns: `ok` - the try block ran to its return;
\* status - the status markdown ("" or the warning); charts - "figs" or the
\* empty placeholders; ledger - the ledger after the call.
Loaded(ledger) ==
    [ok |-> TRUE, status |-> "", charts |-> "figs", ledger |-> ledger, called |-> TRUE]
Degraded(ledger, called) ==
    [ok |-> FALSE, status |-> "warning", charts |-> "empty", ledger |-> ledger,
     called |-> called]

\* The shape shared by the four load handlers: `computed` says that every
\* statement of the try block before log_event ran without raising.
TryLoad(computed, ev, ledger, up) ==
    IF ~computed THEN Degraded(ledger, FALSE)
    ELSE LET log == LogEvent(ledger, ev, up)
         IN  IF log.raised THEN Degraded(log.ledger, TRUE) ELSE Loaded(log.ledger)

\* dashboard_tab.py load_charts.  f.rows is len(anom_df), f.aux the rows of
\* heater_df: with no heater row health_rows is [] and
\* pd.DataFrame([]).sort_values("health_score_pct") raises KeyError.
load_charts(usr, f, ledger, up) ==
    TryLoad(~f.fail /\ f.aux > 0,
            Event("QUERY", EmailOf(usr), RoleOf(usr), None,
                  Some("CNC_TABLE, ENGINE_TABLE"), Some("Dashboard overview load"),
                  Some(f.rows), None, None),
            ledger, up)

\* engine_tab.py load_data.  f.rows is len(eng_df), f.aux the rows of
\* raw_sensor_df: with none, int(raw_sensor_df["Cycle"].min()) is int(nan)
\* and raises ValueError.
engine_load_data(usr, f, ledger, up) ==
    TryLoad(~f.fail /\ f.aux > 0,
            Event("QUERY", EmailOf(usr), RoleOf(usr), None,
                  Some("ENGINE_TABLE"), Some("Engine health tab load"),
                  Some(f.rows), None, None),
            ledger, up)

\* electrical_tab.py load_data.  f.rows is len(phase_df); empty tables are
\* drawn as empty charts.
electrical_load_data(usr, f, ledger, up) ==
    TryLoad(~f.fail,
            Event("QUERY", EmailOf(usr), RoleOf(usr), None,
                  Some("ELEC_TABLE, TRANSFORMER_TABLE"), Some("Electrical monitor tab load"),
                  Some(f.rows), None, None),
            ledger, up)

\* heater_tab.py load_data.  f.rows is len(df), the only table fetched: with
\* no row health_rows is [] and sort_values("health_score_pct") raises.
heater_load_data(usr, f, ledger, up) ==
    TryLoad(~f.fail /\ f.rows > 0,
            Event("QUERY", EmailOf(usr), RoleOf(usr), None,
                  Some("heater_validation_data"), Some("Heater health tab load"),
                  Some(f.rows), None, None),
            ledger, up)

\* ---------------------------------------------------------------------------
\* Chat: chat_tab.py.  A Python str shown in the chat is a sequence of
\* chunks [k, s, ip, fr]: a word (k = "w", text s), white space (k = "sp")
\* or a decimal number (k = "num", integer part ip, fractional digits fr).
\* ---------------------------------------------------------------------------
DECIMAL_PLACES == 4
IN_CHAT_TABLE_MAX_ROWS == 25
MAX_MESSAGE_LEN == 2000

Word(w) == [k |-> "w", s |-> w, ip |-> 0, fr |-> <<>>]
Space == [k |-> "sp", s |-> " ", ip |-> 0, fr |-> <<>>]
Newline == [k |-> "sp", s |-> "\n", ip |-> 0, fr |-> <<>>]
Num(ip, fr) == [k |-> "num", s |-> "", ip |-> ip, fr |-> fr]

\* the question typed: its text without surrounding white space, its length
\* without it, and whether white space surrounds it
Bodies ==
    { [body |-> "", len |-> 0], [body |-> "q1", len |-> 2],
      [body |-> "q2", len |-> MAX_MESSAGE_LEN], [body |-> "long", len |-> MAX_MESSAGE_LEN + 1] }

Messages == { [body |-> b.body, len |-> b.len, pad |-> p] : b \in Bodies, p \in BOOLEAN }

\* str.strip() on a message
StripMessage(m) == [m EXCEPT !.pad = FALSE]

\* len() of a message: two blanks when padded
MessageLen(m) == m.len + (IF m.pad THEN 2 ELSE 0)

\* the test of the message made without stripping it first
RejectedUnstripped(message) ==
    MessageLen(message) = 0 \/ MessageLen(message) > MAX_MESSAGE_LEN

\* chat_tab.py:121-123: the stripped message is empty or too long
Rejected(message) ==
    LET m == StripMessage(message) IN MessageLen(m) = 0 \/ MessageLen(m) > MAX_MESSAGE_LEN

RECURSIVE LStrip(_)
LStrip(t) == IF t # <<>> /\ Head(t).k = "sp" THEN LStrip(Tail(t)) ELSE t

RECURSIVE RStrip(_)
RStrip(t) ==
    IF t # <<>> /\ t[Len(t)].k = "sp" THEN RStrip(SubSeq(t, 1, Len(t) - 1)) ELSE t

\* str.strip() on a text
Strip(t) == RStrip(LStrip(t))

RECURSIVE Pow10(_)
Pow10(n) == IF n = 0 THEN 1 ELSE 10 * Pow10(n - 1)

RECURSIVE DigitsVal(_)
DigitsVal(fr) == IF fr = <<>> THEN 0 ELSE 10 * DigitsVal(SubSeq(fr, 1, Len(fr) - 1)) + fr[Len(fr)]

\* the d decimal digits of v, most significant first
Digits(v, d) == [i \in 1..d |-> (v \div Pow10(d - i)) % 10]

\* repr of a float drops trailing zeros of the fraction but keeps one digit
RECURSIVE DropZeros(_)
DropZeros(fr) ==
    IF Len(fr) > 1 /\ fr[Len(fr)] = 0 THEN DropZeros(SubSeq(fr, 1, Len(fr) - 1)) ELSE fr

\* str(round(float(x), d)) for a decimal x = ip.fr with more than d
\* fractional digits: the nearest multiple of 10^-d; when x is written half
\* way between two of them the binary value of float(x) decides, one way
\* for a given x: session.tie_up
RoundNum(c, d) ==
    LET n == Len(c.fr)
        scaled == c.ip * Pow10(n) + DigitsVal(c.fr)
        unit == Pow10(n - d)
        q == scaled \div unit
        rem == scaled % unit
        up == 2 * rem > unit \/ (2 * rem = unit /\ session.tie_up)
        r == IF up THEN q + 1 ELSE q
    IN  Num(r \div Pow10(d), DropZeros(IF d = 0 THEN <<0>> ELSE Digits(r % Pow10(d), d)))

\* chat_tab.py:30-43
round_numbers_in_text(text, decimals) ==
    IF text = <<>> \/ decimals < 0 THEN text
    ELSE [i \in DOMAIN text |->
            IF text[i].k = "num" /\ Len(text[i].fr) >= decimals + 1
            THEN RoundNum(text[i], decimals) ELSE text[i]]

\* the calls of _round_numbers_in_text: a text "value 1.2 <x>" with x any
\* decimal number of up to MaxFrac fractional digits, or the text "failure
\* rate is 0.039212345", or the empty text; decimals as the callers pass it
\* and the values the guards of the function distinguish
TextDigits == {0, 5, 9}

TextNumbers ==
    { Num(ip, fr) : ip \in {0, 1},
                    fr \in UNION { [1..n -> TextDigits] : n \in 1..MaxFrac } }

TextFrames ==
    { [kind |-> "text", text |-> t, decimals |-> d] :
        t \in { <<Word("value"), Space, Num(1, <<2>>), Space, x>> : x \in TextNumbers }
              \cup { <<>>, <<Word("failure rate is"), Space,
                           Num(0, <<0, 3, 9, 2, 1, 2, 3, 4, 5>>)>> },
        d \in {0 - 1, 0, 2, DECIMAL_PLACES} }

\* Raw replies: result.text is a str, None, a dict with optional `content`
\* and `text` keys, or a list of str.
StrVal(t) == [t |-> "str", v |-> t, content |-> None, text |-> None, items |-> <<>>]
NoneVal == [t |-> "none", v |-> <<>>, content |-> None, text |-> None, items |-> <<>>]
DictVal(c, x) == [t |-> "dict", v |-> <<>>, content |-> c, text |-> x, items |-> <<>>]
ListVal(l) == [t |-> "list", v |-> <<>>, content |-> None, text |-> None, items |-> l]

\* values a dict key can hold: a str or None
ScalarStr(t) == [t |-> "str", v |-> t]
ScalarNone == [t |-> "none", v |-> <<>>]

Answer == <<Word("answer")>>
RateText == <<Word("rate"), Space, Num(0, <<0, 3, 9, 2, 1, 6>>)>>

RawReplies ==
    { StrVal(Answer), StrVal(<<Space>>), StrVal(RateText), NoneVal,
      DictVal(Some(ScalarStr(Answer)), None), DictVal(None, Some(ScalarStr(Answer))),
      DictVal(Some(ScalarNone), None), DictVal(None, None),
      ListVal(<<>>), ListVal(<<Answer, Answer>>) }

Apology == <<Word("Sorry, I could not answer that question. Please try rephrasing it.")>>
NoResponse == <<Word("No response.")>>

RECURSIVE Join(_)
Join(l) ==
    IF l = <<>> THEN <<>>
    ELSE IF Len(l) = 1 THEN l[1]
    ELSE l[1] \o <<Newline>> \o Join(Tail(l))

\* chat_tab.py:139-144: the value `reply` before .strip(); a scalar
Coerce(raw) ==
    CASE raw.t = "dict" ->
            IF raw.content # None THEN The(raw.content)
            ELSE IF raw.text # None THEN The(raw.text)
            ELSE ScalarStr(<<Word("{}")>>)
      [] raw.t = "list" -> ScalarStr(Join(raw.items))
      [] raw.t = "none" -> ScalarStr(<<>>)
      [] OTHER -> ScalarStr(raw.v)

\* chat_tab.py:145: reply.strip() raises AttributeError when reply is None
CoerceRaises(raw) == Coerce(raw).t # "str"

\* the reply taken from the text of the backend whether or not it reports
\* an error
ReplyBackendText(result) ==
    LET raw == result.text
        stripped == Strip(Coerce(raw).v)
    IN  round_numbers_in_text(IF stripped = <<>> THEN NoResponse ELSE stripped,
                              DECIMAL_PLACES)

\* the reply with the SQL of the backend appended
ReplyWithSql(result) ==
    LET raw == IF ~result.error THEN result.text ELSE StrVal(Apology)
        stripped == Strip(Coerce(raw).v)
        code == IF result.sql \notin {None, Some("")} THEN <<Newline, Word(The(result.sql))>>
                ELSE <<>>
    IN  round_numbers_in_text(IF stripped = <<>> THEN NoResponse ELSE stripped,
                              DECIMAL_PLACES) \o code

\* chat_tab.py:136-146
Reply(result) ==
    LET raw == IF ~result.error THEN result.text ELSE StrVal(Apology)
        stripped == Strip(Coerce(raw).v)
    IN  round_numbers_in_text(IF stripped = <<>> THEN NoResponse ELSE stripped,
                              DECIMAL_PLACES)

\* the rendering with the note also on a table of exactly max_rows rows
df_to_markdown_table_note(n, max_rows) ==
    [empty |-> n = 0,
     rows |-> IF n = 0 THEN <<>> ELSE [i \in 1..(IF n < max_rows THEN n ELSE max_rows) |-> i],
     more |-> IF n > 0 /\ n >= max_rows THEN Some(n - max_rows) ELSE None]

\* chat_tab.py:46-62 on a table of rows 1..n and max_rows >= 0: "" for an
\* empty table; else the rows rendered (df.head(max_rows)), in order, and
\* the number in the note "and k more row(s)" when there is one
df_to_markdown_table(n, max_rows) ==
    [empty |-> n = 0,
     rows |-> IF n = 0 THEN <<>> ELSE [i \in 1..(IF n < max_rows THEN n ELSE max_rows) |-> i],
     more |-> IF n > 0 /\ n > max_rows THEN Some(n - max_rows) ELSE None]

\* results that carry a table of up to MaxTableRows rows, or none
TableResults ==
    [text : {StrVal(Answer)}, sql : {Some("SELECT 1")},
     dataframe : {None} \cup {Some(n) : n \in 0..MaxTableRows},
     source : {"genie"}, conversation_id : {Some("c1")}, error : {FALSE}]

TableFrames ==
    { [kind |-> "table", n |-> n, max_rows |-> m] :
        n \in 0..MaxTableRows, m \in {0, 1, 2, IN_CHAT_TABLE_MAX_ROWS} }

\* backend results: ai_service.chat_with_data
Results ==
    [text : RawReplies, sql : {None, Some(""), Some("SELECT 1")},
     dataframe : {None} \cup {Some(n) : n \in 0..MaxRows},
     source : {"genie", "bedrock"}, conversation_id : {Some("c1")}, error : BOOLEAN]

\* a backend that answers with a table, answers in plain text, reports an
\* error, or wraps a null content
SmallResults ==
    { [text |-> StrVal(Answer), sql |-> Some("SELECT 1"), dataframe |-> Some(1),
       source |-> "genie", conversation_id |-> Some("c1"), error |-> FALSE],
      [text |-> StrVal(Answer), sql |-> None, dataframe |-> None,
       source |-> "bedrock", conversation_id |-> Some("c1"), error |-> FALSE],
      [text |-> StrVal(Answer), sql |-> None, dataframe |-> None,
       source |-> "bedrock", conversation_id |-> Some("c1"), error |-> TRUE],
      [text |-> DictVal(Some(ScalarNone), None), sql |-> None, dataframe |-> None,
       source |-> "genie", conversation_id |-> Some("c1"), error |-> FALSE] }

Capitalize(src) == IF src = "genie" THEN "Genie" ELSE "Bedrock"

MessageText(m) == <<Word(m.body)>>

Msg(role, text, table) == [role |-> role, content |-> [text |-> text, table |-> table]]

\* chat_tab.py:119-176.  `raised`: an exception left the handler, Gradio
\* applies no output.
respond(message, history, conv_id, usr, result, ledger, up) ==
    LET m == StripMessage(message)
        same == [raised |-> FALSE, history |-> history, msg_box |-> m.body,
                 conv_id |-> conv_id, source_md |-> "", ledger |-> ledger,
                 called |-> FALSE]
    IN  IF Rejected(message) THEN same
        ELSE IF ~result.error /\ CoerceRaises(result.text)
        THEN [same EXCEPT !.raised = TRUE]
        ELSE LET reply == Reply(result)
                 shown == result.dataframe # None /\ The(result.dataframe) > 0
                 log == LogEvent(ledger,
                            Event("CHAT", EmailOf(usr), RoleOf(usr), Some(result.source),
                                  Some("(AI-generated query)"),
                                  IF result.sql # None /\ The(result.sql) # ""
                                  THEN result.sql ELSE Some(m.body),
                                  Some(IF result.dataframe # None
                                       THEN The(result.dataframe) ELSE 0),
                                  None, None),
                            up)
                 table == IF shown
                          THEN Some(df_to_markdown_table(The(result.dataframe),
                                                         IN_CHAT_TABLE_MAX_ROWS))
                          ELSE None
             IN  IF log.raised
                 THEN [same EXCEPT !.raised = TRUE, !.ledger = log.ledger, !.called = TRUE]
                 ELSE [raised |-> FALSE, called |-> TRUE,
                       history |-> history \o <<Msg("user", MessageText(m), None),
                                                Msg("assistant", reply, table)>>,
                       msg_box |-> "", conv_id |-> result.conversation_id,
                       source_md |-> Capitalize(result.source), ledger |-> log.ledger]

\* ---------------------------------------------------------------------------
\* Feedback: chat_tab.py on_feedback
\* ---------------------------------------------------------------------------
\* an element of the chat value that is not a dict
NonDictMsg == Msg("<not a dict>", <<>>, None)

ChatValues ==
    SeqsUpTo({Msg("user", <<Word("q1")>>, None), Msg("assistant", Answer, None), NonDictMsg},
             MaxChatLen)

\* like_data.index: None, an int, a str (numeric or not), or a list/tuple
\* whose elements are ints or strs.  Element e of a list is [t, n].
IdxRange == (0 - 1)..MaxChatLen

IndexVals ==
    { [t |-> "none", n |-> 0, items |-> <<>>], [t |-> "badstr", n |-> 0, items |-> <<>>] }
    \cup { [t |-> k, n |-> i, items |-> <<>>] : k \in {"int", "str"}, i \in IdxRange }
    \cup { [t |-> "list", n |-> 0, items |-> l] :
             l \in {<<>>, <<[t |-> "str", n |-> 1]>>}
                   \cup { <<[t |-> "int", n |-> i]>> : i \in IdxRange }
                   \cup { <<[t |-> "int", n |-> i], [t |-> "int", n |-> 0]>> : i \in IdxRange } }

\* like_data.liked: a bool, or a str: `core` in upper case when `upper`,
\* surrounded by blanks when `pad`
LikedVals ==
    { [t |-> "bool", b |-> b, core |-> "", upper |-> FALSE, pad |-> FALSE] : b \in BOOLEAN }
    \cup { [t |-> "str", b |-> FALSE, core |-> c, upper |-> u, pad |-> p] :
             c \in {"like", "dislike", "true", "0"}, u \in BOOLEAN, p \in BOOLEAN }

LikeDatas == [index : IndexVals, liked : LikedVals]

\* chat_tab.py:202-207: the index, or the exception int() raises
ResolveIndex(idx) ==
    CASE idx.t = "list" ->
            IF idx.items # <<>> THEN [raised |-> FALSE, v |-> idx.items[1]]
            ELSE [raised |-> FALSE, v |-> [t |-> "int", n |-> 0]]
      [] idx.t = "none" -> [raised |-> FALSE, v |-> [t |-> "int", n |-> 0]]
      [] idx.t = "badstr" -> [raised |-> TRUE, v |-> [t |-> "int", n |-> 0]]
      [] OTHER -> [raised |-> FALSE, v |-> [t |-> "int", n |-> idx.n]]

\* bool(liked) whatever its type: a non-empty str is true
ResolveLikedTruthy(liked) ==
    IF liked.t = "str" THEN TRUE ELSE liked.b

\* chat_tab.py:214-218; liked.strip().lower() undoes pad and upper
ResolveLiked(liked) ==
    IF liked.t = "str" THEN liked.core \in {"true", "like", "1", "yes"} ELSE liked.b

\* chat_tab.py:194-232: the ledger after the call.  Every exception is
\* caught by the handler's own except clause, so nothing is raised.
on_feedback(chatbot_value, like, conv_id, usr, ledger, up) ==
    LET res == ResolveIndex(like.index)
        idx == res.v.n
    IN  IF res.raised THEN ledger
        ELSE IF chatbot_value = <<>> THEN ledger
        ELSE IF res.v.t # "int" THEN ledger      \* str < int raises TypeError
        ELSE IF idx < 0 \/ idx >= Len(chatbot_value) THEN ledger
        ELSE LET msg == chatbot_value[idx + 1]
             IN  IF msg = NonDictMsg \/ msg.role # "assistant" THEN ledger
                 ELSE LogEvent(ledger,
                          Event("FEEDBACK", EmailOf(usr), RoleOf(usr), None, None,
                                IF conv_id = None THEN Some("") ELSE conv_id,
                                None, Some(idx), Some(ResolveLiked(like.liked))),
                          up).ledger

\* ---------------------------------------------------------------------------
\* Health score: heater_tab.py load_data and dashboard_tab.py load_charts.
\* A voltage is a whole number of units; a score is a whole number of tenths
\* of a percent.  A frame of the heater query is a function from PhID to the
\* rows of that heater, each row a cycle number and the average voltage of
\* the cycle.
\* ---------------------------------------------------------------------------
NoTelemetry == [kind |-> "none"]

HEALTH_WINDOW == 10

Volts == {0 - 1, 0, 2, 3}

Min(a, b) == IF a <= b THEN a ELSE b
Max(a, b) == IF a >= b THEN a ELSE b

\* a series of n cycles: voltage a up to cycle k, voltage b after it
StepSeries(n, k, a, b) ==
    [i \in 1..n |-> [id_cycle |-> i, avg_voltage |-> IF i <= k THEN a ELSE b]]

Reverse(s) == [i \in 1..Len(s) |-> s[Len(s) + 1 - i]]

\* the rows of one heater, in rising or in falling cycle order
HeaterSeries ==
    UNION { { StepSeries(n, k, a, b), Reverse(StepSeries(n, k, a, b)) } :
              n \in 1..MaxPoints, k \in {0, 1, HEALTH_WINDOW}, a \in Volts, b \in Volts }

\* a second heater, when the table has one
OtherSeries ==
    { <<>>, StepSeries(1, 0, 0, 3), StepSeries(2 * HEALTH_WINDOW, HEALTH_WINDOW, 3, 2),
      StepSeries(2, 1, 0, 3) }

\* round(x, 1) of a float x is the nearest tenth; when x = num / den lies
\* half way between two tenths the float arithmetic decides, one way for a
\* given input: tie_up
RoundTie(num, den, tie_up) ==
    LET q == num \div den
        r == num - q * den
    IN  IF 2 * r < den THEN q
        ELSE IF 2 * r > den THEN q + 1
        ELSE IF tie_up THEN q + 1 ELSE q

HeaterFrames ==
    { [kind |-> "heater", df |-> <<s1, s2>>, tie_up |-> t] :
        s1 \in HeaterSeries, s2 \in OtherSeries, t \in BOOLEAN }

RECURSIVE InsertByCycle(_, _)
InsertByCycle(row, sorted) ==
    IF sorted = <<>> THEN <<row>>
    ELSE IF row.id_cycle < Head(sorted).id_cycle THEN <<row>> \o sorted
    ELSE <<Head(sorted)>> \o InsertByCycle(row, Tail(sorted))

\* grp.sort_values("id_cycle")
RECURSIVE SortByCycle(_)
SortByCycle(grp) ==
    IF grp = <<>> THEN <<>>
    ELSE InsertByCycle(grp[Len(grp)], SortByCycle(SubSeq(grp, 1, Len(grp) - 1)))

\* .head(10) and .tail(10)
HeadRows(s, n) == SubSeq(s, 1, Min(n, Len(s)))
TailRows(s, n) == SubSeq(s, Max(1, Len(s) - n + 1), Len(s))

RECURSIVE SumVoltage(_)
SumVoltage(s) == IF s = <<>> THEN 0 ELSE Head(s).avg_voltage + SumVoltage(Tail(s))

\* the score computed from the rows in the order they arrive
heater_score_unsorted(grp, tie_up) ==
    LET base == HeadRows(grp, HEALTH_WINDOW)
        rec == TailRows(grp, HEALTH_WINDOW)
    IN  IF SumVoltage(base) > 0
        THEN RoundTie(1000 * SumVoltage(rec) * Len(base), SumVoltage(base) * Len(rec), tie_up)
        ELSE 0

\* heater_tab.py:207-210: baseline = mean of the first 10 rows, recent = mean
\* of the last 10, score = round(recent / baseline * 100, 1) if baseline > 0
\* else 0
heater_score(grp, tie_up) ==
    LET grp_s == SortByCycle(grp)
        base == HeadRows(grp_s, HEALTH_WINDOW)
        rec == TailRows(grp_s, HEALTH_WINDOW)
    IN  IF SumVoltage(base) > 0
        THEN RoundTie(1000 * SumVoltage(rec) * Len(base), SumVoltage(base) * Len(rec), tie_up)
        ELSE 0

\* dashboard_tab.py:254-257: the same computation in the Overview
dashboard_score(grp, tie_up) ==
    LET grp_s == SortByCycle(grp)
        base == HeadRows(grp_s, HEALTH_WINDOW)
        rec == TailRows(grp_s, HEALTH_WINDOW)
    IN  IF SumVoltage(base) > 0
        THEN RoundTie(1000 * SumVoltage(rec) * Len(base), SumVoltage(base) * Len(rec), tie_up)
        ELSE 0

\* df.groupby("PhID"): the heaters that have rows, in rising PhID order
Groups(df) == SelectSeq(<<1, 2>>, LAMBDA phid : df[phid] # <<>>)

\* heater_tab.py:205-217: one row per heater
heater_health_rows(frame) ==
    LET g == Groups(frame.df)
    IN  [i \in 1..Len(g) |->
           [PhID |-> g[i], health_score_pct |-> heater_score(frame.df[g[i]], frame.tie_up)]]

\* dashboard_tab.py:252-258
dashboard_health_rows(frame) ==
    LET g == Groups(frame.df)
    IN  [i \in 1..Len(g) |->
           [PhID |-> g[i], health_score_pct |-> dashboard_score(frame.df[g[i]], frame.tie_up)]]

RECURSIVE InsertByScore(_, _, _)
InsertByScore(row, sorted, ascending) ==
    IF sorted = <<>> THEN <<row>>
    ELSE IF (IF ascending THEN row.health_score_pct < Head(sorted).health_score_pct
             ELSE row.health_score_pct > Head(sorted).health_score_pct)
    THEN <<row>> \o sorted
    ELSE <<Head(sorted)>> \o InsertByScore(row, Tail(sorted), ascending)

\* DataFrame.sort_values("health_score_pct", ascending=...)
RECURSIVE SortByScore(_, _)
SortByScore(rows, ascending) ==
    IF rows = <<>> THEN <<>>
    ELSE InsertByScore(rows[Len(rows)], SortByScore(SubSeq(rows, 1, Len(rows) - 1), ascending),
                       ascending)

\* heater_tab.py:205-223: the frames of the health step of the Heater view
heater_health(frame) ==
    LET health_df == SortByScore(heater_health_rows(frame), TRUE)
    IN  [view |-> "heater", most_degraded |-> Some(health_df[1].PhID),
         health_df_sorted |-> SortByScore(health_df, FALSE)]

\* dashboard_tab.py:252-263: the frame of the health chart of the Overview
dashboard_health(frame) ==
    [view |-> "overview", most_degraded |-> None,
     health_df_sorted |-> SortByScore(dashboard_health_rows(frame), FALSE)]

\* ---------------------------------------------------------------------------
\* Severity tiers: dashboard_tab.py _STATUS_COLORS and _build_health_bar,
\* engine_tab.py load_data.  db_service.get_engine_rul_buckets is not part of
\* the sources: it is modelled from the specification of the two RUL
\* partitions, and reports its buckets under the names one of the two views
\* keys on.
\* ---------------------------------------------------------------------------
BucketRuls == {0, 19, 20, 49, 50, 99, 100, 124, 125}

\* the bucket names the Overview colours (dashboard_tab.py:13-18)
STATUS_COLORS ==
    [n \in {"Failure imminent (<20)", "Critical (20-49)", "Warning (50-125)", "Safe (>125)"} |->
        CASE n = "Failure imminent (<20)" -> "#B71C1C"
          [] n = "Critical (20-49)" -> "#E53935"
          [] n = "Warning (50-125)" -> "#FB8C00"
          [] n = "Safe (>125)" -> "#43A047"]

\* the bucket names the Engine view counts (engine_tab.py:319-321; the last
\* one is written with the sign for "at least" in the source)
ENGINE_KPI_KEYS ==
    [critical |-> "Critical (<50)", warning |-> "Warning (50-99)", healthy |-> "Healthy (>=100)"]

\* the 3-tier partition: Critical < 50, Warning [50, 100), Healthy >= 100
ThreeTier(rul) ==
    IF rul < 50 THEN "Critical (<50)"
    ELSE IF rul < 100 THEN "Warning (50-99)" ELSE "Healthy (>=100)"

\* the 4-tier partition: Failure-imminent < 20, Critical [20, 50),
\* Warning [50, 125), Safe >= 125
FourTier(rul) ==
    IF rul < 20 THEN "Failure imminent (<20)"
    ELSE IF rul < 50 THEN "Critical (20-49)"
    ELSE IF rul < 125 THEN "Warning (50-125)" ELSE "Safe (>125)"

\* db_service.get_engine_rul_buckets(): one row per non-empty bucket, as a
\* function from the bucket names to their counts
get_engine_rul_buckets(ruls, labels) ==
    LET name(r) == IF labels = "three" THEN ThreeTier(r) ELSE FourTier(r)
        names == {name(ruls[i]) : i \in DOMAIN ruls}
    IN  [n \in names |-> Cardinality({i \in DOMAIN ruls : name(ruls[i]) = n})]

BucketFrames ==
    { [kind |-> "buckets", ruls |-> r, labels |-> l, score |-> s] :
        r \in SeqsUpTo(BucketRuls, MaxRows), l \in {"three", "four"},
        s \in {0, 949, 950, 951, 979, 980, 1000} }

\* bucket_df[bucket_df["bucket"] == key]["count"].sum()
CountOf(bucket_df, key) == IF key \in DOMAIN bucket_df THEN bucket_df[key] ELSE 0

\* engine_tab.py:319-321: the three KPI counts
engine_kpis(bucket_df) ==
    [view |-> "engine",
     critical |-> CountOf(bucket_df, ENGINE_KPI_KEYS.critical),
     warning |-> CountOf(bucket_df, ENGINE_KPI_KEYS.warning),
     healthy |-> CountOf(bucket_df, ENGINE_KPI_KEYS.healthy)]

\* dashboard_tab.py:232-239: the colour of each bar; a bucket that is not a
\* key of the colour map gets a colour of the default palette
rul_bar_colors(rul_df) ==
    [view |-> "overview",
     colors |-> [n \in DOMAIN rul_df |->
                   IF n \in DOMAIN STATUS_COLORS THEN STATUS_COLORS[n] ELSE "default"]]

\* dashboard_tab.py:32-35 and heater_tab.py:71-74: the colour of a health
\* score (in tenths of a percent): good from 98, warning from 95
health_bar_color(s) ==
    [view |-> "health_bar",
     color |-> IF s >= 980 THEN "#43A047" ELSE IF s >= 950 THEN "#FB8C00" ELSE "#E53935"]

\* ---------------------------------------------------------------------------
\* Rolling deviation bands: engine_tab.py render_rolling.  Readings are whole
\* units; rolling means, deviations and band edges are in hundredths of a
\* unit, rounded down.
\* ---------------------------------------------------------------------------
Readings == {10, 12}

EngineIds == {1, 2}

\* the sensor rows of one engine over cycles 1..n
SensorRows(id, vals) == [c \in 1..Len(vals) |-> [id |-> id, Cycle |-> c, v |-> vals[c]]]

\* raw_df: the rows of engine 1, any readings, and of engine 2, in rising or
\* in falling order
RawFrames ==
    UNION { { SensorRows(1, v1) \o SensorRows(2, v2),
              Reverse(SensorRows(1, v1) \o SensorRows(2, v2)) } :
              v1 \in UNION { [1..n -> Readings] : n \in 1..MaxCycles },
              v2 \in { <<>>, <<12, 10>>, <<10, 10, 12>> } }

RollFrames ==
    { [kind |-> "rolling", raw_df |-> df, sensor |-> s, engines |-> e,
       cycle_min |-> lo, cycle_max |-> hi, window |-> w] :
        df \in RawFrames, s \in {"", "SensorMeasure2"}, e \in SUBSET EngineIds,
        lo \in 1..MaxCycles, hi \in {1, MaxCycles}, w \in 1..MaxWindow }

RECURSIVE InsertByCycleCol(_, _)
InsertByCycleCol(row, sorted) ==
    IF sorted = <<>> THEN <<row>>
    ELSE IF row.Cycle < Head(sorted).Cycle THEN <<row>> \o sorted
    ELSE <<Head(sorted)>> \o InsertByCycleCol(row, Tail(sorted))

\* grp.sort_values("Cycle")
RECURSIVE SortByCycleCol(_)
SortByCycleCol(grp) ==
    IF grp = <<>> THEN <<>>
    ELSE InsertByCycleCol(grp[Len(grp)], SortByCycleCol(SubSeq(grp, 1, Len(grp) - 1)))

RECURSIVE SumV(_)
SumV(s) == IF s = <<>> THEN 0 ELSE Head(s).v + SumV(Tail(s))

RECURSIVE SumSq(_)
SumSq(s) == IF s = <<>> THEN 0 ELSE Head(s).v * Head(s).v + SumSq(Tail(s))

RECURSIVE ISqrtFrom(_, _)
ISqrtFrom(x, r) == IF (r + 1) * (r + 1) > x THEN r ELSE ISqrtFrom(x, r + 1)

\* the square root of x, rounded down
ISqrt(x) == ISqrtFrom(x, 0)

\* the rows a rolling window ending at row j holds
WindowRows(g, j, window) == SubSeq(g, Max(1, j - window + 1), j)

\* .rolling(window, min_periods=1).mean() at row j, in hundredths
RollingMean(g, j, window) ==
    LET win == WindowRows(g, j, window)
    IN  (100 * SumV(win)) \div Len(win)

\* .rolling(window, min_periods=1).std().fillna(0) at row j, in hundredths:
\* the sample deviation, NaN (then 0) when the window holds one row
RollingStd(g, j, window) ==
    LET win == WindowRows(g, j, window)
        n == Len(win)
    IN  IF n < 2 THEN 0
        ELSE ISqrt((10000 * (n * SumSq(win) - SumV(win) * SumV(win))) \div (n * (n - 1)))

\* the band of one engine computed over all its rows, whatever the cycle
\* range selected
rolling_band_unfiltered(frame, eng_id) ==
    LET g == SortByCycleCol(SelectSeq(frame.raw_df, LAMBDA row : row.id = eng_id))
    IN  [j \in 1..Len(g) |->
           [Cycle |-> g[j].Cycle, raw |-> g[j].v,
            rm |-> RollingMean(g, j, frame.window),
            rstd |-> RollingStd(g, j, frame.window),
            upper |-> RollingMean(g, j, frame.window) + 2 * RollingStd(g, j, frame.window),
            lower |-> RollingMean(g, j, frame.window) - 2 * RollingStd(g, j, frame.window)]]

\* engine_tab.py:95-106: the rows of one engine inside the cycle range, by
\* cycle, with the rolling mean, the deviation and the band edges
rolling_band(frame, eng_id) ==
    LET filtered == SelectSeq(frame.raw_df,
                      LAMBDA row : /\ row.id \in frame.engines
                                   /\ row.Cycle >= frame.cycle_min
                                   /\ row.Cycle <= frame.cycle_max)
        g == SortByCycleCol(SelectSeq(filtered, LAMBDA row : row.id = eng_id))
    IN  [j \in 1..Len(g) |->
           [Cycle |-> g[j].Cycle, raw |-> g[j].v,
            rm |-> RollingMean(g, j, frame.window),
            rstd |-> RollingStd(g, j, frame.window),
            upper |-> RollingMean(g, j, frame.window) + 2 * RollingStd(g, j, frame.window),
            lower |-> RollingMean(g, j, frame.window) - 2 * RollingStd(g, j, frame.window)]]

\* engine_tab.py:92-144: the traces of the figure, one band per engine that
\* has rows left; an empty figure without engines or sensor
render_rolling(frame) ==
    IF frame.engines = {} \/ frame.sensor = "" THEN [view |-> "rolling", bands |-> <<>>]
    ELSE LET ids == { e \in EngineIds : rolling_band(frame, e) # <<>> }
         IN  [view |-> "rolling", bands |-> [e \in ids |-> rolling_band(frame, e)]]

\* ---------------------------------------------------------------------------
\* Maintenance schedule: engine_tab.py generate_schedule.  RUL values are
\* whole cycles; for these int(rul * 0.5) and int(rul * 0.6) equal the
\* integer quotients below.
\* ---------------------------------------------------------------------------
RulValues == {0 - 5, 0, 1, 2, 3, 15, 16, 30, 31, 100, 101, 150}

EngineRows(i) == [engine_id : {i}, remaining_rul : RulValues, status : {"status"}]

Fleets ==
    UNION { { fl \in [1..k -> UNION {EngineRows(i) : i \in 1..k}] :
                \A i \in 1..k : fl[i].engine_id = i } : k \in 0..MaxEngines }

Task(row, rul, days, priority) ==
    [engine_id |-> row.engine_id, status |-> row.status, rul |-> rul,
     days |-> days, priority |-> priority,
     action |-> "Preventive Maintenance Inspection"]

\* the loop body without the floor of one day
ScheduleRowNoFloor(row) ==
    LET rul == IF row.remaining_rul < 0 THEN 0 ELSE row.remaining_rul
    IN  IF rul <= 30
        THEN Some(Task(row, rul, (rul * 5) \div 10,
                       IF rul <= 15 THEN "URGENT" ELSE "HIGH"))
        ELSE IF rul <= 100
        THEN Some(Task(row, rul, (rul * 6) \div 10, "MEDIUM"))
        ELSE None

\* the loop body with `rul < 30` in place of `rul <= 30`
ScheduleRowStrict(row) ==
    LET rul == IF row.remaining_rul < 0 THEN 0 ELSE row.remaining_rul
    IN  IF rul < 30
        THEN Some(Task(row, rul, Max(1, (rul * 5) \div 10),
                       IF rul <= 15 THEN "URGENT" ELSE "HIGH"))
        ELSE IF rul <= 100
        THEN Some(Task(row, rul, (rul * 6) \div 10, "MEDIUM"))
        ELSE None

\* engine_tab.py:387-406, the loop body: the task of one engine, or None
\* when the loop continues without one
ScheduleRow(row) ==
    LET rul == IF row.remaining_rul < 0 THEN 0 ELSE row.remaining_rul
    IN  IF rul <= 30
        THEN Some(Task(row, rul, Max(1, (rul * 5) \div 10),
                       IF rul <= 15 THEN "URGENT" ELSE "HIGH"))
        ELSE IF rul <= 100
        THEN Some(Task(row, rul, (rul * 6) \div 10, "MEDIUM"))
        ELSE None

RECURSIVE ScheduleRows(_)
ScheduleRows(eng_df) ==
    IF eng_df = <<>> THEN <<>>
    ELSE LET t == ScheduleRow(Head(eng_df))
         IN  (IF t = None THEN <<>> ELSE <<The(t)>>) \o ScheduleRows(Tail(eng_df))

\* engine_tab.py:381-411: the table returned: the tasks, the one-row "all
\* engines healthy" table, or the one-row error table
generate_schedule(eng_df, fetch_fails) ==
    IF fetch_fails THEN [kind |-> "error", rows |-> <<>>]
    ELSE LET rows == ScheduleRows(eng_df)
         IN  IF rows = <<>> THEN [kind |-> "sentinel", rows |-> <<>>]
             ELSE [kind |-> "tasks", rows |-> rows]

\* ---------------------------------------------------------------------------
\* The role gate: app.py on_page_load
\* ---------------------------------------------------------------------------

\* roles.get(name, dflt) on the `roles` dict of a parsed policy
RolesGet(roles, name, dflt) ==
    IF name \in DOMAIN roles /\ roles[name].t # "absent" THEN roles[name] ELSE dflt

\* app.py:187-193, the try block that computes `allowed`; every exception
\* inside it ends in `allowed = []`
ResolveAllowed(pol, role) ==
    IF pol.kind # "ok" THEN EmptyList
    ELSE LET dflt == RolesGet(pol.roles, "no_access", [t |-> "notabs", v |-> <<>>])
             role_cfg == RolesGet(pol.roles, role, dflt)
         IN  CASE role_cfg.t = "null" -> EmptyList
               [] role_cfg.t = "notabs" -> EmptyList
               [] OTHER -> role_cfg

\* Python `needle in hay` for two str values (hay as a sequence of chunks,
\* needle one chunk)
StrContains(hay, needle) == \E i \in 1..Len(hay) : hay[i] = needle

ListContains(l, x) == \E i \in 1..Len(l) : l[i] = x

\* `name in allowed` raises TypeError when allowed is None or an int
VisRaises(allowed) == allowed.t \in {"none", "int"}

\* app.py:205-208 _vis
Vis(name, allowed) ==
    IF allowed.t = "str" /\ allowed.v = <<"all">> THEN TRUE
    ELSE IF allowed.t = "str" THEN StrContains(allowed.v, name)
    ELSE IF allowed.t = "list" THEN ListContains(allowed.v, name)
    ELSE FALSE

\* the default the other handlers use for an absent identity
RoleDefaultViewer(usr) == IF usr.present THEN usr.role ELSE "viewer"

\* app.py:185
Role(usr) == IF usr.present THEN usr.role ELSE "no_access"

\* tab_updates of the no_access branch (app.py:197-198)
RequestOnly == [i \in 1..RequestTab |-> i = RequestTab]

\* tab_updates of the other branch (app.py:210-211)
TabUpdates(allowed) ==
    [i \in 1..RequestTab |-> IF i = RequestTab THEN FALSE ELSE Vis(TAB_NAMES[i], allowed)]

\* app.py:183-217.  The result says whether the handler raised (then Gradio
\* applies no output), the tab updates, the dashboard part (`dash`, None when
\* load_charts was not called) and the request-access markdown.
on_page_load(pol, usr, f, ledger, up) ==
    LET role == Role(usr)
        allowed == ResolveAllowed(pol, role)
    IN  IF role = "no_access"
        THEN [raised |-> FALSE, tab_updates |-> RequestOnly, dash |-> None,
              account |-> Some(EmailOf(usr)), ledger |-> ledger]
        ELSE IF VisRaises(allowed)
        THEN [raised |-> TRUE, tab_updates |-> RequestOnly, dash |-> None,
              account |-> None, ledger |-> ledger]
        ELSE LET d == load_charts(usr, f, ledger, up)
             IN  [raised |-> FALSE, tab_updates |-> TabUpdates(allowed),
                  dash |-> Some([ok |-> d.ok, status |-> d.status, charts |-> d.charts]),
                  account |-> None, ledger |-> d.ledger]

\* ---------------------------------------------------------------------------
\* Actions
\* ---------------------------------------------------------------------------
AllHidden == [i \in 1..RequestTab |-> FALSE]

InitCommon ==
    /\ user \in Requests
    /\ sched_tbl = None
    /\ derived = None
    /\ visible = AllHidden
    /\ user_display = ""
    /\ audit = <<>>
    /\ msg_box = ""
    /\ source_label = ""
    /\ pending = <<>>
    /\ running = {}
    /\ submitted = 0
    /\ chat_order = <<>>
    /\ last = [op |-> "init"]

\* demo.load: the browser opens the page
PageLoad ==
    /\ Len(audit) < MaxAudit
    /\ \E f \in Fetches :
         LET r == on_page_load(policy, user, f, audit, sink_up)
         IN  /\ audit' = r.ledger
             /\ visible' = IF r.raised THEN visible ELSE r.tab_updates
             /\ user_display' = IF r.account = None THEN user_display ELSE The(r.account)
             /\ last' = [op |-> "on_page_load", raised |-> r.raised, dash |-> r.dash]
    /\ UNCHANGED <<policy, user, sink_up, chat, engine, session>>

\* An operator edits governance/roles.yaml: the file is replaced by a broken
\* one, a broken one by a well-formed one, or one role entry changes.
PolicyChange ==
    /\ \/ \E k \in BadKinds \ {policy.kind} : policy' = [kind |-> k, roles |-> NoRoles]
       \/ policy.kind # "ok" /\ policy' = DefaultPolicy
       \/ /\ policy.kind = "ok"
          /\ \E r \in PolicyRoles : \E e \in RoleEntries \ {policy.roles[r]} :
               policy' = [policy EXCEPT !.roles[r] = e]
    /\ last' = [op |-> "policy_change"]
    /\ UNCHANGED <<user, visible, user_display, audit, sink_up, chat, engine, session>>

\* One of the four load handlers runs (refresh_btn / load_btn click)
ViewLoad(op, f, r) ==
    /\ audit' = r.ledger
    /\ last' = [op |-> op, f |-> f, before |-> Len(audit), ok |-> r.ok,
                status |-> r.status, charts |-> r.charts, called |-> r.called,
                sink |-> sink_up]
    /\ UNCHANGED <<gate, engine, user, sink_up, chat, session>>

DashboardLoad ==
    /\ Len(audit) < MaxAudit
    /\ \E f \in Fetches : ViewLoad("load_charts", f, load_charts(user, f, audit, sink_up))

EngineLoad ==
    /\ Len(audit) < MaxAudit
    /\ \E f \in Fetches : ViewLoad("engine_load_data", f, engine_load_data(user, f, audit, sink_up))

ElectricalLoad ==
    /\ Len(audit) < MaxAudit
    /\ \E f \in Fetches :
         ViewLoad("electrical_load_data", f, electrical_load_data(user, f, audit, sink_up))

HeaterLoad ==
    /\ Len(audit) < MaxAudit
    /\ \E f \in Fetches : ViewLoad("heater_load_data", f, heater_load_data(user, f, audit, sink_up))

\* Gradio runs the events of one handler function one at a time, oldest
\* first: a listener registered without concurrency_limit has limit 1, and
\* submit_btn.click and msg_box.submit register the same function.
ConcurrencyLimit == 1

\* a queue that starts a call whatever is running
QueueAdmitsAlways(run) == TRUE

\* the queue starts the next call of respond only when fewer than
\* ConcurrencyLimit calls of it are running
QueueAdmits(run) == Cardinality(run) < ConcurrencyLimit

AnyResult ==
    [text |-> NoneVal, sql |-> None, dataframe |-> None, source |-> "genie",
     conversation_id |-> None, error |-> FALSE]

\* The user presses Ask (via = "click") or Enter in the textbox (via =
\* "submit"): the browser sends the textbox and the chat it shows.
Submit ==
    /\ submitted < session.turns
    /\ \E m \in Messages, via \in {"click", "submit"} :
         pending' = Append(pending,
                           [n |-> submitted + 1, message |-> m, history |-> chatbot,
                            via |-> via, overlapped |-> running # {}])
    /\ submitted' = submitted + 1
    /\ last' = [op |-> "submit"]
    /\ UNCHANGED <<gate, engine, user, audit, sink_up, chatbot, msg_box, conv_id_state,
                   source_label, running, chat_order, like_data, session>>

\* Gradio calls respond for the oldest queued event: a rejected message
\* returns at once (chat_tab.py:121-123), any other goes to the assistant.
RespondStart ==
    /\ pending # <<>>
    /\ QueueAdmits(running)
    /\ LET job == Head(pending)
           r == respond(job.message, job.history, conv_id_state, user, AnyResult,
                        audit, sink_up)
       IN  IF Rejected(job.message)
           THEN /\ chatbot' = r.history
                /\ msg_box' = r.msg_box
                /\ conv_id_state' = r.conv_id
                /\ source_label' = r.source_md
                /\ running' = running
                /\ last' = [op |-> "respond", n |-> job.n, accepted |-> FALSE,
                            raised |-> FALSE, called |-> FALSE, before |-> Len(audit),
                            message |-> job.message, history |-> job.history,
                            conv_id |-> conv_id_state, result |-> AnyResult,
                            overlapped |-> job.overlapped, sink |-> sink_up]
           ELSE /\ running' = running \cup {[job EXCEPT !.history = job.history]
                                              @@ [conv_id |-> conv_id_state]}
                /\ last' = [op |-> "respond_start"]
                /\ UNCHANGED <<chatbot, msg_box, conv_id_state, source_label>>
    /\ pending' = Tail(pending)
    /\ UNCHANGED <<gate, engine, user, audit, sink_up, submitted, chat_order, like_data, session>>

\* The assistant answers a call in flight: respond runs to its return.
RespondFinish ==
    /\ \E job \in running : \E result \in session.backend :
         LET r == respond(job.message, job.history, job.conv_id, user, result,
                          audit, sink_up)
         IN  /\ running' = running \ {job}
             /\ audit' = r.ledger
             /\ chat_order' = IF Len(r.ledger) > Len(audit)
                               THEN Append(chat_order, job.n) ELSE chat_order
             /\ IF r.raised
                THEN UNCHANGED <<chatbot, msg_box, conv_id_state, source_label>>
                ELSE /\ chatbot' = r.history
                     /\ msg_box' = r.msg_box
                     /\ conv_id_state' = r.conv_id
                     /\ source_label' = r.source_md
             /\ last' = [op |-> "respond", n |-> job.n, accepted |-> TRUE,
                         raised |-> r.raised, called |-> r.called, before |-> Len(audit),
                         message |-> job.message, history |-> job.history,
                         conv_id |-> job.conv_id, result |-> result,
                         overlapped |-> job.overlapped, sink |-> sink_up]
    /\ UNCHANGED <<gate, engine, user, sink_up, pending, submitted, like_data, session>>

\* clear_btn.click
ClearChat ==
    /\ chatbot # <<>> \/ msg_box # "" \/ conv_id_state # None \/ source_label # ""
    /\ chatbot' = <<>>
    /\ msg_box' = ""
    /\ conv_id_state' = None
    /\ source_label' = ""
    /\ last' = [op |-> "clear"]
    /\ UNCHANGED <<gate, engine, user, audit, sink_up, pending, running, submitted, chat_order,
                   like_data, session>>

\* chatbot.like: the browser sends the like event with the chat it shows
Feedback ==
    /\ like_data # None
    /\ audit' = on_feedback(chatbot, The(like_data), conv_id_state, user, audit, sink_up)
    /\ like_data' = None
    /\ last' = [op |-> "on_feedback", raised |-> FALSE, before |-> Len(audit),
                like_data |-> The(like_data)]
    /\ UNCHANGED <<gate, engine, user, sink_up, chatbot, msg_box, conv_id_state, source_label,
                   pending, running, submitted, chat_order, session>>

\* sched_btn.click
GenerateSchedule ==
    /\ sched_tbl = None
    /\ \E fails \in BOOLEAN :
         /\ sched_tbl' = Some(generate_schedule(fleet, fails))
         /\ last' = [op |-> "generate_schedule", fails |-> fails]
    /\ UNCHANGED <<gate, fleet, telemetry, derived, user, audit, sink_up, chat, session>>

\* the health step of the Heater view and of the Overview, on the frame the
\* heater query returned
HeaterHealth ==
    /\ telemetry.kind = "heater"
    /\ \A d \in derived : d.view = "overview"
    /\ derived' = Some(heater_health(telemetry))
    /\ last' = [op |-> "heater_health", prev |-> derived]
    /\ UNCHANGED <<gate, fleet, sched_tbl, telemetry, user, audit, sink_up, chat, session>>

OverviewHealth ==
    /\ telemetry.kind = "heater"
    /\ \A d \in derived : d.view = "heater"
    /\ derived' = Some(dashboard_health(telemetry))
    /\ last' = [op |-> "overview_health", prev |-> derived]
    /\ UNCHANGED <<gate, fleet, sched_tbl, telemetry, user, audit, sink_up, chat, session>>

\* the bucket steps of the Engine view and of the Overview, and the colour
\* of a health bar
AnalyticStep(op, result) ==
    /\ derived = None
    /\ derived' = Some(result)
    /\ last' = [op |-> op]
    /\ UNCHANGED <<gate, fleet, sched_tbl, telemetry, user, audit, sink_up, chat, session>>

EngineBuckets ==
    /\ telemetry.kind = "buckets"
    /\ AnalyticStep("engine_buckets",
                    engine_kpis(get_engine_rul_buckets(telemetry.ruls, telemetry.labels)))

OverviewBuckets ==
    /\ telemetry.kind = "buckets"
    /\ AnalyticStep("overview_buckets",
                    rul_bar_colors(get_engine_rul_buckets(telemetry.ruls, telemetry.labels)))

HealthBarColor ==
    /\ telemetry.kind = "buckets"
    /\ AnalyticStep("health_bar", health_bar_color(telemetry.score))

\* a change of a sensor filter redraws the rolling chart
RenderRolling ==
    /\ telemetry.kind = "rolling"
    /\ AnalyticStep("render_rolling", render_rolling(telemetry))

\* a call of _round_numbers_in_text
RoundText ==
    /\ telemetry.kind = "text"
    /\ AnalyticStep("round_text",
                    [view |-> "text",
                     text |-> round_numbers_in_text(telemetry.text, telemetry.decimals)])

\* a call of _df_to_markdown_table
RenderTable ==
    /\ telemetry.kind = "table"
    /\ AnalyticStep("render_table", df_to_markdown_table(telemetry.n, telemetry.max_rows))

\* the audit sink goes down or comes back
SinkFlip ==
    /\ sink_up' = ~sink_up
    /\ last' = [op |-> "sink"]
    /\ UNCHANGED <<gate, engine, user, audit, chat, session>>

\* a session that asks up to MaxSubmits questions of the small backend
QuietChat ==
    /\ fleet = <<>>
    /\ telemetry = NoTelemetry
    /\ chatbot = <<>>
    /\ conv_id_state = None
    /\ like_data = None
    /\ sink_up = TRUE
    /\ session = [backend |-> SmallResults, turns |-> MaxSubmits, tie_up |-> FALSE]

Init ==
    /\ InitCommon
    /\ QuietChat
    /\ policy \in Policies

InitDefault ==
    /\ InitCommon
    /\ QuietChat
    /\ policy = DefaultPolicy

NextViews == DashboardLoad \/ EngineLoad \/ ElectricalLoad \/ HeaterLoad

SpecViews == InitDefault /\ [][NextViews]_vars

NextChat == Submit \/ RespondStart \/ RespondFinish \/ ClearChat

SpecChat == InitDefault /\ [][NextChat]_vars

\* one question, answered by any of the results the backend can return
InitTurn ==
    /\ InitCommon
    /\ fleet = <<>>
    /\ telemetry = NoTelemetry
    /\ policy = DefaultPolicy
    /\ chatbot = <<>>
    /\ conv_id_state = None
    /\ like_data = None
    /\ sink_up = TRUE
    /\ session = [backend |-> Results, turns |-> 1, tie_up |-> FALSE]

SpecTurn == InitTurn /\ [][NextChat]_vars

\* on_feedback as a function of its arguments: any chat value, any
\* like event, with or without a conversation id
InitFeedback ==
    /\ InitCommon
    /\ fleet = <<>>
    /\ telemetry = NoTelemetry
    /\ policy = DefaultPolicy
    /\ chatbot \in ChatValues
    /\ conv_id_state \in {None, Some("c1")}
    /\ like_data \in {Some(l) : l \in LikeDatas}
    /\ sink_up = TRUE
    /\ session = [backend |-> SmallResults, turns |-> 0, tie_up |-> FALSE]

NextFeedback == Feedback

\* the schedule as a function of the engine table
InitSchedule ==
    /\ InitCommon
    /\ policy = DefaultPolicy
    /\ fleet \in Fleets
    /\ telemetry = NoTelemetry
    /\ chatbot = <<>>
    /\ conv_id_state = None
    /\ like_data = None
    /\ sink_up = TRUE
    /\ session = [backend |-> SmallResults, turns |-> 0, tie_up |-> FALSE]

NextSchedule == GenerateSchedule

SpecSchedule == InitSchedule /\ [][NextSchedule]_vars

\* the analytic steps on the tables of T
InitAnalytics(T) ==
    /\ InitCommon
    /\ policy = DefaultPolicy
    /\ fleet = <<>>
    /\ telemetry \in T
    /\ chatbot = <<>>
    /\ conv_id_state = None
    /\ like_data = None
    /\ sink_up = TRUE
    \* only texts hold numbers written half way between two results
    /\ session \in [backend : {SmallResults}, turns : {0}, tie_up : {telemetry.kind = "text"} \cup {FALSE}]

InitHealth == InitAnalytics(HeaterFrames)

NextHealth == HeaterHealth \/ OverviewHealth

SpecHealth == InitHealth /\ [][NextHealth]_vars

InitBuckets == InitAnalytics(BucketFrames)

NextBuckets == EngineBuckets \/ OverviewBuckets \/ HealthBarColor

SpecBuckets == InitBuckets /\ [][NextBuckets]_vars

InitRolling == InitAnalytics(RollFrames)

NextRolling == RenderRolling

SpecRolling == InitRolling /\ [][NextRolling]_vars

InitRound == InitAnalytics(TextFrames)

NextRound == RoundText

SpecRound == InitRound /\ [][NextRound]_vars

\* one question answered with a table, and the calls of the table rendering
InitTable ==
    /\ InitCommon
    /\ policy = DefaultPolicy
    /\ fleet = <<>>
    /\ telemetry \in TableFrames
    /\ chatbot = <<>>
    /\ conv_id_state = None
    /\ like_data = None
    /\ sink_up = TRUE
    /\ session = [backend |-> TableResults, turns |-> 1, tie_up |-> FALSE]

NextTable == Submit \/ RespondStart \/ RespondFinish \/ ClearChat \/ RenderTable

SpecTable == InitTable /\ [][NextTable]_vars

\* ---------------------------------------------------------------------------
\* What a load handler puts on the page.  An output of a handler is a value
\* for its component, or gr.update() (None here), which leaves the component
\* as it is.  A value records its component kind k, what it is (v), the
\* load it was derived in (from, 0 when it is a fixed value) and, for a
\* warning, the number of characters of exception text it shows (len).
\* ---------------------------------------------------------------------------
EXC_CHARS == 120

\* lengths of str(exc)
ExcLens == {0, 1, EXC_CHARS, EXC_CHARS + 1, 2 * EXC_CHARS}

Blank(k) == [k |-> k, v |-> "blank", from |-> 0, len |-> 0]
EmptyFig == [k |-> "fig", v |-> "empty", from |-> 0, len |-> 0]
Dash == [k |-> "kpi", v |-> "dash", from |-> 0, len |-> 0]
NoneState == [k |-> "state", v |-> "none", from |-> 0, len |-> 0]
NoStatus == [k |-> "status", v |-> "", from |-> 0, len |-> 0]
Warning(n) == [k |-> "status", v |-> "warning", from |-> 0, len |-> n]
Derived(k, n) == [k |-> k, v |-> "derived", from |-> n, len |-> 0]

\* an output component of kind k whose value the try block has once `need`
\* of its fetches returned
Slot(k, need) == [k |-> k, need |-> need]

\* the db_service calls of the try block of a handler
fetch_count(op) ==
    CASE op = "load_charts" -> 5
      [] op = "engine_load_data" -> 5
      [] op = "electrical_load_data" -> 4
      [] op = "heater_load_data" -> 1

\* the outputs of a handler, in the order of its `outputs` list
load_layout(op) ==
    CASE op = "load_charts" ->
            <<Slot("fig", 1), Slot("fig", 2), Slot("fig", 3), Slot("fig", 4),
              Slot("table", 5), Slot("status", 5),
              Slot("state", 3), Slot("state", 4), Slot("control", 4)>>
      [] op = "engine_load_data" ->
            <<Slot("fig", 1), Slot("fig", 2), Slot("fig", 3), Slot("fig", 3),
              Slot("table", 4),
              Slot("kpi", 4), Slot("kpi", 4), Slot("kpi", 4), Slot("kpi", 4),
              Slot("status", 5),
              Slot("state", 5), Slot("control", 5), Slot("control", 5), Slot("control", 5)>>
      [] op = "electrical_load_data" ->
            <<Slot("fig", 1), Slot("fig", 2), Slot("fig", 2), Slot("fig", 2),
              Slot("kpi", 4), Slot("kpi", 4), Slot("kpi", 4), Slot("kpi", 4),
              Slot("fig", 4), Slot("fig", 4), Slot("fig", 4), Slot("fig", 4),
              Slot("status", 4), Slot("state", 1), Slot("control", 1)>>
      [] op = "heater_load_data" ->
            <<Slot("fig", 1), Slot("fig", 1), Slot("fig", 1), Slot("fig", 1),
              Slot("table", 1), Slot("table", 1),
              Slot("kpi", 1), Slot("kpi", 1), Slot("kpi", 1), Slot("kpi", 1),
              Slot("status", 1),
              Slot("state", 1), Slot("state", 1), Slot("control", 1)>>

\* the return of the try block of load n
return_outputs(layout, n) ==
    [i \in DOMAIN layout |->
        Some(IF layout[i].k = "status" THEN NoStatus ELSE Derived(layout[i].k, n))]

\* an except branch that leaves the gr.State values as they are
except_outputs_keeping_cache(layout, done, n, exc_len) ==
    [i \in DOMAIN layout |->
        CASE layout[i].k = "fig" -> Some(EmptyFig)
          [] layout[i].k = "kpi" -> Some(Dash)
          [] layout[i].k = "status" -> Some(Warning(Min(exc_len, EXC_CHARS)))
          [] OTHER -> None]

\* an except branch that returns the figures the try block had built
except_outputs_partial(layout, done, n, exc_len) ==
    [i \in DOMAIN layout |->
        CASE layout[i].k = "fig" ->
                Some(IF layout[i].need <= done THEN Derived("fig", n) ELSE EmptyFig)
          [] layout[i].k = "kpi" -> Some(Dash)
          [] layout[i].k = "status" -> Some(Warning(Min(exc_len, EXC_CHARS)))
          [] layout[i].k = "state" -> Some(NoneState)
          [] OTHER -> None]

\* the except branch of load n, entered with `done` fetches returned and an
\* exception whose text has exc_len characters: empty figures, "—" KPIs,
\* the warning with str(exc)[:120], None for the gr.State values, and
\* gr.update() for the tables and the filter controls
except_outputs(layout, done, n, exc_len) ==
    [i \in DOMAIN layout |->
        CASE layout[i].k = "fig" -> Some(EmptyFig)
          [] layout[i].k = "kpi" -> Some(Dash)
          [] layout[i].k = "status" -> Some(Warning(Min(exc_len, EXC_CHARS)))
          [] layout[i].k = "state" -> Some(NoneState)
          [] OTHER -> None]

\* Gradio sets each component to its output, gr.update() changing nothing
apply_outputs(screen, outs) ==
    [i \in DOMAIN screen |-> IF outs[i] = None THEN screen[i] ELSE The(outs[i])]

\* the page of a view before its first load
BlankScreen(op) == [i \in DOMAIN load_layout(op) |-> Blank(load_layout(op)[i].k)]

LoadHandler(op, usr, f, ledger, up) ==
    CASE op = "load_charts" -> load_charts(usr, f, ledger, up)
      [] op = "engine_load_data" -> engine_load_data(usr, f, ledger, up)
      [] op = "electrical_load_data" -> electrical_load_data(usr, f, ledger, up)
      [] op = "heater_load_data" -> heater_load_data(usr, f, ledger, up)

\* the views loaded, with the tables their fetches return when they return
LoadFrames ==
    { [kind |-> "load", view |-> op, rows |-> r, aux |-> a] :
        op \in {"load_charts", "engine_load_data", "electrical_load_data",
                "heater_load_data"},
        r \in 0..MaxRows, a \in 0..1 }

\* one click on the load button of the view: fetch number fail_at raises
\* an exception of exc_len characters (0: none raises)
ReloadView ==
    /\ telemetry.kind = "load"
    /\ \A d \in derived : d.loads < MaxLoads
    /\ \E fail_at \in 0..fetch_count(telemetry.view), exc_len \in ExcLens :
         LET op == telemetry.view
             n == IF derived = None THEN 1 ELSE The(derived).loads + 1
             screen == IF derived = None THEN BlankScreen(op) ELSE The(derived).screen
             f == [fail |-> fail_at > 0, rows |-> telemetry.rows, aux |-> telemetry.aux]
             r == LoadHandler(op, user, f, audit, sink_up)
             done == IF fail_at > 0 THEN fail_at - 1 ELSE fetch_count(op)
             outs == IF r.ok THEN return_outputs(load_layout(op), n)
                     ELSE except_outputs(load_layout(op), done, n, exc_len)
         IN  /\ derived' = Some([view |-> op, loads |-> n, outs |-> outs,
                                 screen |-> apply_outputs(screen, outs)])
             /\ audit' = r.ledger
             /\ last' = [op |-> "reload", ok |-> r.ok, fail_at |-> fail_at,
                         exc_len |-> IF r.ok THEN 0 ELSE exc_len]
    /\ UNCHANGED <<gate, fleet, sched_tbl, telemetry, user, sink_up, chat, session>>

InitReload == InitAnalytics(LoadFrames)

NextReload == ReloadView

SpecReload == InitReload /\ [][NextReload]_vars

\* ---------------------------------------------------------------------------
\* The request-access view: request_access_tab.py.  `file` is what
\* governance/roles.yaml holds now: unreadable, or readable with or without
\* an admin_email key; `built` is the admin_email build() read when the app
\* was constructed and send_request closes over.
\* ---------------------------------------------------------------------------
DEFAULT_ADMIN_EMAIL == "annakamcclelland@gmail.com"

AdminFiles ==
    { [readable |-> FALSE, admin_email |-> None] }
    \cup { [readable |-> TRUE, admin_email |-> a] : a \in {None, Some("a@x"), Some("b@x")} }

\* request_access_tab.py:13-19
get_admin_email(file) ==
    IF file.readable /\ file.admin_email # None THEN The(file.admin_email)
    ELSE DEFAULT_ADMIN_EMAIL

\* request_access_tab.py:42-71: the mailto link is addressed to the
\* admin_email of build() (line 24)
send_request(built, file, usr) == [to |-> built, email |-> EmailOf(usr)]

RequestFrames ==
    { [kind |-> "request", file |-> f, built |-> get_admin_email(f)] : f \in AdminFiles }

\* an operator edits admin_email in governance/roles.yaml, or breaks or
\* repairs the file
AdminChange ==
    /\ telemetry.kind = "request"
    /\ \E f \in AdminFiles \ {telemetry.file} : telemetry' = [telemetry EXCEPT !.file = f]
    /\ last' = [op |-> "admin_change"]
    /\ UNCHANGED <<gate, fleet, sched_tbl, derived, user, audit, sink_up, chat, session>>

\* request_btn.click
SendRequest ==
    /\ telemetry.kind = "request"
    /\ derived' = Some(send_request(telemetry.built, telemetry.file, user))
    /\ last' = [op |-> "send_request"]
    /\ UNCHANGED <<gate, fleet, sched_tbl, telemetry, user, audit, sink_up, chat, session>>

InitRequest == InitAnalytics(RequestFrames)

NextRequest == AdminChange \/ SendRequest

SpecRequest == InitRequest /\ [][NextRequest]_vars

\* app.py:171-172
toggle_panel(shown) == [panel_visible |-> ~shown, chat_panel |-> ~shown]

\* toggle_btn.click: the button is outside the tabs and is shown to every
\* identity; panel_visible starts False and the chat column hidden
TogglePanel ==
    /\ derived' = Some(toggle_panel(\E d \in derived : d.panel_visible))
    /\ last' = [op |-> "toggle_panel"]
    /\ UNCHANGED <<gate, fleet, sched_tbl, telemetry, user, audit, sink_up, chat, session>>

\* a question sent from the chat panel while it is shown
PanelSubmit ==
    /\ \E d \in derived : d.chat_panel
    /\ Submit

\* the chat panel and its toggle button in one session
NextPanel == TogglePanel \/ PanelSubmit \/ RespondStart \/ RespondFinish \/ ClearChat

SpecPanel == InitDefault /\ [][NextPanel]_vars

\* ---------------------------------------------------------------------------
\* Redraws.  A redraw handler reads the table a gr.State holds (None until a
\* load stored one) and the selection of its filter, and returns figures.
\* ---------------------------------------------------------------------------
\* a figure drawn from the table that load n cached
Redrawn(n) == [k |-> "fig", v |-> "redrawn", from |-> n, len |-> 0]

\* `raw_df is None`
IsNone(raw_df) == raw_df.v # "derived"

\* electrical_tab.py:236-241, dashboard_tab.py:303-308
redraw_fault_chart(selected, raw_df) ==
    IF IsNone(raw_df) \/ ~selected THEN <<EmptyFig>> ELSE <<Redrawn(raw_df.from)>>

\* heater_tab.py:330-334
redraw_voltage_trend(selected, raw_df) ==
    IF IsNone(raw_df) \/ ~selected THEN <<EmptyFig>> ELSE <<Redrawn(raw_df.from)>>

\* heater_tab.py:336-340, dashboard_tab.py:297-301
redraw_health_bar(show_threshold, raw_health_df) ==
    IF IsNone(raw_health_df) THEN <<EmptyFig>> ELSE <<Redrawn(raw_health_df.from)>>

\* engine_tab.py:368-379 with render_degradation, render_heatmap and
\* render_rolling (lines 40, 68, 93): `sensors` and `engines` say whether
\* any sensor and any engine is selected
update_sensor_charts(sensors, engines, raw_df) ==
    IF IsNone(raw_df) THEN <<EmptyFig, EmptyFig, EmptyFig>>
    ELSE <<IF ~sensors \/ ~engines THEN EmptyFig ELSE Redrawn(raw_df.from),
           IF ~engines THEN EmptyFig ELSE Redrawn(raw_df.from),
           IF ~engines THEN EmptyFig ELSE Redrawn(raw_df.from)>>

\* the `change` listeners of a view: the handler, the output slot of the
\* load that feeds its gr.State, and the chart slots of the load it redraws
\* (the three sensor charts of the engine view are no outputs of its load)
redraw_listeners(op) ==
    CASE op = "load_charts" ->
            { [fn |-> "redraw_health_bar", cache |-> 7, targets |-> <<3>>],
              [fn |-> "redraw_fault_chart", cache |-> 8, targets |-> <<4>>] }
      [] op = "engine_load_data" ->
            { [fn |-> "update_sensor_charts", cache |-> 11, targets |-> <<>>] }
      [] op = "electrical_load_data" ->
            { [fn |-> "redraw_fault_chart", cache |-> 14, targets |-> <<1>>] }
      [] op = "heater_load_data" ->
            { [fn |-> "redraw_voltage_trend", cache |-> 12, targets |-> <<1>>],
              [fn |-> "redraw_health_bar", cache |-> 13, targets |-> <<2>>] }

RedrawHandler(fn, selected, sensors, raw_df) ==
    CASE fn = "redraw_fault_chart" -> redraw_fault_chart(selected, raw_df)
      [] fn = "redraw_voltage_trend" -> redraw_voltage_trend(selected, raw_df)
      [] fn = "redraw_health_bar" -> redraw_health_bar(selected, raw_df)
      [] fn = "update_sensor_charts" -> update_sensor_charts(sensors, selected, raw_df)

\* a filter or toggle of the view changes: `selected` is the checkbox, or
\* whether any item of the checkbox group is ticked
RedrawChart ==
    /\ telemetry.kind = "load"
    /\ \E h \in redraw_listeners(telemetry.view), selected \in BOOLEAN, sensors \in BOOLEAN :
         LET op == telemetry.view
             d == IF derived = None
                  THEN [view |-> op, loads |-> 0, outs |-> [i \in DOMAIN load_layout(op) |-> None],
                        screen |-> BlankScreen(op)]
                  ELSE The(derived)
             figs == RedrawHandler(h.fn, selected, sensors, d.screen[h.cache])
         IN  /\ sensors \/ h.fn = "update_sensor_charts"
             /\ derived' = Some([d EXCEPT !.screen =
                                   [i \in DOMAIN d.screen |->
                                      IF \E j \in DOMAIN h.targets : h.targets[j] = i
                                      THEN figs[CHOOSE j \in DOMAIN h.targets : h.targets[j] = i]
                                      ELSE d.screen[i]]])
             /\ last' = [op |-> "redraw", fn |-> h.fn, selected |-> selected,
                         cache |-> d.screen[h.cache], figs |-> figs, before |-> Len(audit)]
    /\ UNCHANGED <<gate, fleet, sched_tbl, telemetry, user, audit, sink_up, chat, session>>

NextRedraw == ReloadView \/ RedrawChart

SpecRedraw == InitReload /\ [][NextRedraw]_vars

\* view loads and one chat turn with an audit sink that can be down
InitAuditFail ==
    /\ InitCommon
    /\ policy = DefaultPolicy
    /\ fleet = <<>>
    /\ telemetry = NoTelemetry
    /\ chatbot = <<>>
    /\ conv_id_state = None
    /\ like_data = None
    /\ sink_up \in BOOLEAN
    /\ session = [backend |-> SmallResults, turns |-> 1, tie_up |-> FALSE]

NextAuditFail ==
    \/ DashboardLoad \/ EngineLoad \/ ElectricalLoad \/ HeaterLoad
    \/ Submit \/ RespondStart \/ RespondFinish \/ ClearChat
    \/ SinkFlip

SpecAuditFail == InitAuditFail /\ [][NextAuditFail]_vars

SpecFeedback == InitFeedback /\ [][NextFeedback]_vars

Next == PageLoad \/ PolicyChange

Spec == Init /\ [][Next]_vars

\* ---------------------------------------------------------------------------
\* The role gate: properties
\* ---------------------------------------------------------------------------
\* PolicyChange resets `last`, so while last.op = "on_page_load" the policy
\* is the one the load read.
PageLoaded == last.op = "on_page_load"

NoRegularVisible == \A i \in RegularTabs : ~visible[i]

HasEntry(pol, role) ==
    pol.kind = "ok" /\ role \in DOMAIN pol.roles /\ pol.roles[role].t # "absent"

\* C1: a page load by an identity of role no_access, or without identity,
\* returns normally, hides the six regular views and shows Request Access,
\* whatever the policy resource holds.
C1_NoAccessSeesOnlyRequest ==
    (PageLoaded /\ (~user.present \/ user.role = "no_access"))
        => (~last.raised /\ NoRegularVisible /\ visible[RequestTab])

\* an anonymous page load under a policy that gives viewers the Overview,
\* and a no_access identity under a policy whose no_access entry says "all"
C1_Witness ==
    /\ PageLoaded /\ visible[RequestTab]
    /\ policy.kind = "ok"
    /\ \/ ~user.present /\ policy.roles["viewer"] = [t |-> "list", v |-> <<"Overview">>]
       \/ user.role = "no_access" /\ policy.roles["no_access"] = [t |-> "str", v |-> <<"all">>]

\* C2: a page load by an identity whose role has no entry in a well-formed
\* policy shows exactly the Request Access view.
C2_UnknownRoleSeesOnlyRequest ==
    (PageLoaded /\ user.present /\ policy.kind = "ok" /\ ~HasEntry(policy, user.role))
        => (~last.raised /\ NoRegularVisible /\ visible[RequestTab])

\* C3: with the policy resource missing, unparseable or without `roles`, a
\* page load returns normally, shows no regular view and shows Request Access.
C3_BrokenPolicyShowsRequest ==
    (PageLoaded /\ policy.kind \in BadKinds)
        => (~last.raised /\ NoRegularVisible /\ visible[RequestTab])

\* C4: for a role other than no_access with an entry: tabs "all" shows the
\* six regular views; a tabs list shows exactly the views named in it, each
\* at its canonical position; any other tabs value shows none; Request
\* Access is hidden.
C4_Expected(entry, i) ==
    IF entry.t = "str" /\ entry.v = <<"all">> THEN TRUE
    ELSE IF entry.t = "list" THEN TAB_NAMES[i] \in {entry.v[k] : k \in 1..Len(entry.v)}
    ELSE FALSE

C4_ConfiguredTabsOnly ==
    (PageLoaded /\ ~last.raised /\ user.present /\ user.role # "no_access"
       /\ HasEntry(policy, user.role))
        => /\ \A i \in RegularTabs : visible[i] = C4_Expected(policy.roles[user.role], i)
           /\ ~visible[RequestTab]

\* ---------------------------------------------------------------------------
\* View loads: properties
\* ---------------------------------------------------------------------------
ViewLoadOps == {"load_charts", "engine_load_data", "electrical_load_data", "heater_load_data"}

SourceTables(op) ==
    CASE op = "load_charts" -> "CNC_TABLE, ENGINE_TABLE"
      [] op = "engine_load_data" -> "ENGINE_TABLE"
      [] op = "electrical_load_data" -> "ELEC_TABLE, TRANSFORMER_TABLE"
      [] op = "heater_load_data" -> "heater_validation_data"

\* C5: every view load appends exactly one QUERY event, with the caller's
\* email and role, the source tables of the view and the row count of its
\* primary result set.
C5_OneQueryPerViewLoad ==
    last.op \in ViewLoadOps =>
        /\ Len(audit) = last.before + 1
        /\ LET ev == audit[Len(audit)]
           IN  /\ ev.action_type = "QUERY"
               /\ user.present => (ev.user_email = user.email /\ ev.user_role = user.role)
               /\ ev.source_tables = Some(SourceTables(last.op))
               /\ ev.row_count = Some(last.f.rows)

\* ---------------------------------------------------------------------------
\* Chat turns and feedback: properties
\* ---------------------------------------------------------------------------
ChatTurn == last.op = "respond" /\ last.accepted

\* C6: every chat turn appends exactly one CHAT event whose ai_source is the
\* source the backend reported, whose query_text is the SQL when the backend
\* returned one and the question otherwise, and whose row_count is the
\* number of rows of the returned table, 0 when there is none.
C6_OneChatEventPerTurn ==
    ChatTurn =>
        /\ Len(audit) = last.before + 1
        /\ LET ev == audit[Len(audit)]
               res == last.result
           IN  /\ ev.action_type = "CHAT"
               /\ ev.ai_source = Some(res.source)
               /\ ev.query_text = (IF res.sql \notin {None, Some("")} THEN res.sql
                                   ELSE Some(last.message.body))
               /\ ev.row_count = (IF res.dataframe = None THEN Some(0)
                                  ELSE res.dataframe)

\* the index a like/dislike input denotes, for the shapes that determine one
C7_Determined(idx) ==
    \/ idx.t \in {"none", "int", "str"}
    \/ idx.t = "list" /\ (idx.items = <<>> \/ idx.items[1].t = "int")

C7_Index(idx) ==
    CASE idx.t = "list" /\ idx.items # <<>> -> idx.items[1].n
      [] idx.t \in {"int", "str"} -> idx.n
      [] OTHER -> 0

\* what the `liked` input says
C7_Liked(liked) ==
    IF liked.t = "bool" THEN liked.b ELSE liked.core \in {"like", "true"}

C7_RatesAssistant(idx) ==
    /\ C7_Determined(idx)
    /\ C7_Index(idx) >= 0
    /\ C7_Index(idx) < Len(chatbot)
    /\ chatbot[C7_Index(idx) + 1].role = "assistant"

\* C7: feedback on a user-authored message, or with a negative or out of
\* bounds index, appends nothing; feedback on an assistant message appends
\* exactly one FEEDBACK event with that message_index and the `liked` value
\* the input says, whatever the shape of index and liked; on_feedback never
\* raises.
C7_FeedbackOnlyOnAssistant ==
    last.op = "on_feedback" =>
        LET idx == last.like_data.index
        IN  /\ ~last.raised
            /\ C7_RatesAssistant(idx) =>
                 /\ Len(audit) = last.before + 1
                 /\ audit[Len(audit)].action_type = "FEEDBACK"
                 /\ audit[Len(audit)].message_index = Some(C7_Index(idx))
                 /\ audit[Len(audit)].liked = Some(C7_Liked(last.like_data.liked))
            /\ (C7_Determined(idx) /\ ~C7_RatesAssistant(idx)) => Len(audit) = last.before

\* a padded upper-case "dislike" on the assistant message at index 1, the
\* index arriving as a pair
C7_Witness ==
    /\ last.op = "on_feedback"
    /\ last.like_data.index.t = "list"
    /\ Len(last.like_data.index.items) = 2
    /\ last.like_data.index.items[1].n = 1
    /\ last.like_data.liked.t = "str"
    /\ last.like_data.liked.core = "dislike"
    /\ last.like_data.liked.upper
    /\ last.like_data.liked.pad
    /\ Len(chatbot) = 2
    /\ chatbot[1].role = "user"
    /\ Len(audit) = 1
    /\ audit[1].message_index = Some(1)
    /\ audit[1].liked = Some(FALSE)

ChatEvents == SelectSeq(audit, LAMBDA ev : ev.action_type = "CHAT")

\* C9: the CHAT events of a session are appended in the order the turns were
\* submitted, also when a turn is submitted while the previous one is still
\* in flight, and every turn has its own event.
C9_ChatEventsInSubmissionOrder ==
    /\ \A i, j \in DOMAIN chat_order : i < j => chat_order[i] < chat_order[j]
    /\ Len(ChatEvents) = Len(chat_order)
    /\ (ChatTurn /\ ~last.raised)
         => /\ Len(audit) = last.before + 1
            /\ chat_order[Len(chat_order)] = last.n

C9_Witness ==
    /\ ChatTurn
    /\ ~last.raised
    /\ last.overlapped
    /\ last.n = 2
    /\ chat_order = <<1, 2>>
    /\ Len(audit) = 2

\* ---------------------------------------------------------------------------
\* Maintenance schedule: properties
\* ---------------------------------------------------------------------------
C10_Rul(row) == IF row.remaining_rul < 0 THEN 0 ELSE row.remaining_rul

C10_Included(row) == C10_Rul(row) <= 100

C10_Priority(rul) ==
    CASE rul <= 15 -> "URGENT"
      [] rul > 15 /\ rul <= 30 -> "HIGH"
      [] rul > 30 /\ rul <= 100 -> "MEDIUM"

\* floor(rul * 0.5) is rul \div 2, floor(rul * 0.6) is (rul * 3) \div 5
C10_Offset(rul) ==
    IF rul <= 30 THEN (IF rul \div 2 >= 1 THEN rul \div 2 ELSE 1)
    ELSE (rul * 3) \div 5

C11_UrgentWithinSevenDays ==
    (last.op = "generate_schedule" /\ ~last.fails /\ sched_tbl # None) =>
        \A i \in DOMAIN The(sched_tbl).rows :
            LET task == The(sched_tbl).rows[i]
            IN  /\ task.rul <= 30 => (task.priority = "URGENT" /\ task.days <= 7)
                /\ task.days <= 30

\* ---------------------------------------------------------------------------
\* Health score: properties
\* ---------------------------------------------------------------------------
HealthOps == {"heater_health", "overview_health"}

\* the voltage of cycle c in the rows of one heater
C12_At(rows, c) == rows[CHOOSE i \in DOMAIN rows : rows[i].id_cycle = c].avg_voltage

RECURSIVE C12_Sum(_, _, _)
C12_Sum(rows, lo, hi) ==
    IF lo > hi THEN 0 ELSE C12_At(rows, lo) + C12_Sum(rows, lo + 1, hi)

Abs(x) == IF x < 0 THEN 0 - x ELSE x

\* s tenths of a percent is recent / baseline * 100 rounded to one decimal,
\* the windows being the first and the last min(n, 10) cycles; 0 when the
\* baseline is not positive
C12_IsScore(rows, s) ==
    LET n == Len(rows)
        w == IF n < 10 THEN n ELSE 10
        base == C12_Sum(rows, 1, w)
        rec == C12_Sum(rows, n - w + 1, n)
    IN  IF base > 0 THEN 2 * Abs(1000 * rec - s * base) <= base ELSE s = 0

C13_Count(lo, hi) ==
    Cardinality({i \in DOMAIN telemetry.ruls : telemetry.ruls[i] >= lo /\ telemetry.ruls[i] < hi})

C13_CountFrom(lo) ==
    Cardinality({i \in DOMAIN telemetry.ruls : telemetry.ruls[i] >= lo})

C13_Colors == {The(derived).colors[n] : n \in DOMAIN The(derived).colors}

\* C13: every value falls in exactly one tier, lower bounds included and
\* upper bounds excluded, and the names the views key on denote these
\* tiers: the Engine view counts as Critical, Warning and Healthy the engines
\* below 50, from 50 and from 100; the Overview gives every bucket the colour
\* of its tier; a health score is Good from 98, Warning from 95, Critical
\* below.
C13_TiersPartition ==
    /\ last.op = "engine_buckets" =>
         /\ The(derived).critical = C13_Count(0, 50)
         /\ The(derived).warning = C13_Count(50, 100)
         /\ The(derived).healthy = C13_CountFrom(100)
    /\ last.op = "overview_buckets" =>
         /\ \A n \in DOMAIN The(derived).colors : The(derived).colors[n] # "default"
         /\ (C13_Count(0, 20) > 0) <=> ("#B71C1C" \in C13_Colors)
         /\ (C13_Count(20, 50) > 0) <=> ("#E53935" \in C13_Colors)
         /\ (C13_Count(50, 125) > 0) <=> ("#FB8C00" \in C13_Colors)
         /\ (C13_CountFrom(125) > 0) <=> ("#43A047" \in C13_Colors)
    /\ last.op = "health_bar" =>
         The(derived).color = (CASE telemetry.score >= 980 -> "#43A047"
                                 [] telemetry.score >= 950 /\ telemetry.score < 980 -> "#FB8C00"
                                 [] telemetry.score < 950 -> "#E53935")

\* ---------------------------------------------------------------------------
\* Rolling deviation bands: properties
\* ---------------------------------------------------------------------------
\* the reading of engine e at cycle c
C14_Reading(e, c) ==
    LET df == telemetry.raw_df
    IN  df[CHOOSE i \in DOMAIN df : df[i].id = e /\ df[i].Cycle = c].v

\* the cycles of engine e inside the selected range
C14_Cycles(e) ==
    { c \in telemetry.cycle_min..telemetry.cycle_max :
        \E i \in DOMAIN telemetry.raw_df :
            telemetry.raw_df[i].id = e /\ telemetry.raw_df[i].Cycle = c }

RECURSIVE C14_Sum(_, _, _)
C14_Sum(e, cs, square) ==
    IF cs = {} THEN 0
    ELSE LET c == CHOOSE x \in cs : TRUE
             v == C14_Reading(e, c)
         IN  (IF square THEN v * v ELSE v) + C14_Sum(e, cs \ {c}, square)

\* point p is the band of engine e at its cycle: mean and sample deviation
\* of the last w readings of e inside the range, to the hundredth
C14_IsBandPoint(e, p) ==
    LET cs == { c \in C14_Cycles(e) : c <= p.Cycle /\ c > p.Cycle - telemetry.window }
        n == Cardinality(cs)
        s == C14_Sum(e, cs, FALSE)
        q == n * C14_Sum(e, cs, TRUE) - s * s
    IN  /\ p.raw = C14_Reading(e, p.Cycle)
        /\ n * p.rm <= 100 * s
        /\ 100 * s < n * (p.rm + 1)
        /\ n = 1 => p.rstd = 0
        /\ n > 1 => /\ n * (n - 1) * p.rstd * p.rstd <= 10000 * q
                    /\ 10000 * q < n * (n - 1) * (p.rstd + 1) * (p.rstd + 1) + n * (n - 1)
        /\ q = 0 => (p.rstd = 0 /\ p.upper = 100 * p.raw /\ p.lower = 100 * p.raw)
        /\ p.upper = p.rm + 2 * p.rstd
        /\ p.lower = p.rm - 2 * p.rstd
        /\ p.lower <= p.rm
        /\ p.rm <= p.upper

\* C14: for every selected engine the band is defined at every cycle of the
\* range from the first on, upper = mean + 2 deviations and lower = mean - 2
\* deviations around the rolling mean, with deviation 0 and both edges on
\* the reading at the first point and wherever the window is constant; it
\* depends on nothing but the readings of that engine inside the range.
C14_RollingBand ==
    (last.op = "render_rolling" /\ telemetry.sensor # "" /\ telemetry.engines # {}) =>
        LET bands == The(derived).bands
        IN  /\ DOMAIN bands = { e \in telemetry.engines : C14_Cycles(e) # {} }
            /\ \A e \in DOMAIN bands :
                 /\ {bands[e][j].Cycle : j \in DOMAIN bands[e]} = C14_Cycles(e)
                 /\ Len(bands[e]) = Cardinality(C14_Cycles(e))
                 /\ \A j \in DOMAIN bands[e] :
                      /\ C14_IsBandPoint(e, bands[e][j])
                      /\ j > 1 => bands[e][j - 1].Cycle < bands[e][j].Cycle
                 /\ bands[e][1].rstd = 0
                 /\ bands[e][1].upper = 100 * bands[e][1].raw

\* window 3 over the readings 10, 10, 10, 10 of engine 1: mean 10 and
\* deviation 0 everywhere; engine 2 with 12, 10 has a band of positive width
C14_Witness ==
    /\ last.op = "render_rolling"
    /\ telemetry.window = 3
    /\ telemetry.engines = {1, 2}
    /\ telemetry.cycle_min = 1
    /\ telemetry.cycle_max = 4
    /\ telemetry.raw_df = Reverse(SensorRows(1, <<10, 10, 10, 10>>) \o SensorRows(2, <<12, 10>>))
    /\ DOMAIN The(derived).bands = {1, 2}
    /\ \A j \in 1..4 :
         /\ The(derived).bands[1][j].rm = 1000
         /\ The(derived).bands[1][j].rstd = 0
         /\ The(derived).bands[1][j].upper = 1000
         /\ The(derived).bands[1][j].lower = 1000
    /\ The(derived).bands[2][2].rm = 1100
    /\ The(derived).bands[2][2].rstd = 141
    /\ The(derived).bands[2][2].upper = 1382

\* the text a raw reply carries, empty when it carries none
C15_Text(raw) ==
    CASE raw.t = "str" -> raw.v
      [] raw.t = "list" -> Join(raw.items)
      [] raw.t = "dict" /\ raw.content # None /\ The(raw.content).t = "str" -> The(raw.content).v
      [] raw.t = "dict" /\ raw.content = None /\ raw.text # None /\ The(raw.text).t = "str"
            -> The(raw.text).v
      [] OTHER -> <<>>

\* the shapes the statement names: a str, None, a list, a dict with
\* `content` or `text`
C15_Covered(raw) == ~(raw.t = "dict" /\ raw.content = None /\ raw.text = None)

\* C15: whatever the shape of the raw reply, respond returns a display
\* string without raising, and a reply without text is shown as exactly
\* "No response.".
C15_ReplyIsDisplayString ==
    (ChatTurn /\ ~last.result.error /\ C15_Covered(last.result.text)) =>
        /\ ~last.raised
        /\ Len(chatbot) = Len(last.history) + 2
        /\ chatbot[Len(chatbot)].content.text # <<>>
        /\ Strip(C15_Text(last.result.text)) = <<>>
             => chatbot[Len(chatbot)].content.text = NoResponse

\* C16: every number with more than d digits after the point is rewritten
\* to a number with exactly d digits after the point; every number with d
\* or fewer, and all other text, is unchanged.
C16_RoundsToExactlyDDigits ==
    (last.op = "round_text" /\ telemetry.decimals >= 0) =>
        LET out == The(derived).text
            d == telemetry.decimals
        IN  /\ Len(out) = Len(telemetry.text)
            /\ \A i \in DOMAIN out :
                 IF telemetry.text[i].k = "num" /\ Len(telemetry.text[i].fr) > d
                 THEN out[i].k = "num" /\ Len(out[i].fr) = d
                 ELSE out[i] = telemetry.text[i]

\* the rendering t shows a table of n rows under the cap m
C17_Renders(t, n, m) ==
    /\ ~t.empty
    /\ Len(t.rows) = (IF n < m THEN n ELSE m)
    /\ \A i \in DOMAIN t.rows : t.rows[i] = i
    /\ t.more # None <=> n > m
    /\ n > m => t.more = Some(n - m)

\* C17: a table of n rows is rendered inline with its first min(n, m) rows
\* in table order, and with the note "and n-m more row(s)" if and only if
\* n > m; without a table, or with an empty one, the assistant message is
\* the reply text alone.
C17_InlineTable ==
    /\ (last.op = "render_table" /\ telemetry.n > 0)
         => C17_Renders(The(derived), telemetry.n, telemetry.max_rows)
    /\ (last.op = "render_table" /\ telemetry.n = 0) => The(derived).empty
    /\ (ChatTurn /\ ~last.raised) =>
         LET msg == chatbot[Len(chatbot)]
             df == last.result.dataframe
         IN  /\ msg.role = "assistant"
             /\ msg.content.text = Answer
             /\ (df = None \/ df = Some(0)) => msg.content.table = None
             /\ (df # None /\ df # Some(0)) =>
                  /\ msg.content.table # None
                  /\ C17_Renders(The(msg.content.table), The(df), 25)

\* a table of 27 rows: 25 rows inline and the note "and 2 more row(s)"
C17_Witness ==
    /\ ChatTurn
    /\ ~last.raised
    /\ last.result.dataframe = Some(27)
    /\ Len(The(chatbot[Len(chatbot)].content.table).rows) = 25
    /\ The(chatbot[Len(chatbot)].content.table).more = Some(2)

SqlValues == {None, Some(""), Some("SELECT 1")}

\* C18: the chat display never carries the SQL of the backend: a reply that
\* differs only in its `sql` field leads to the same chat history, message
\* box, conversation id and source label.
C18_DisplayIndependentOfSql ==
    ChatTurn =>
        /\ \A s \in SqlValues :
             LET r == respond(last.message, last.history, last.conv_id, user,
                              [last.result EXCEPT !.sql = s], <<>>, TRUE)
             IN  /\ r.raised = last.raised
                 /\ ~last.raised =>
                      /\ r.history = chatbot
                      /\ r.msg_box = msg_box
                      /\ r.conv_id = conv_id_state
                      /\ r.source_md = source_label
        /\ \A i \in DOMAIN chatbot : \A j \in DOMAIN chatbot[i].content.text :
             chatbot[i].content.text[j].s # "SELECT 1"

C18_Witness ==
    /\ ChatTurn
    /\ ~last.raised
    /\ last.result.sql = Some("SELECT 1")
    /\ last.result.dataframe = Some(2)
    /\ Len(chatbot) = 2
    /\ Len(audit) = 1
    /\ audit[1].query_text = Some("SELECT 1")

\* C19: when the backend reply has error = true, the text of the assistant
\* message shown is the fixed apology, never the text of the backend, the
\* turn does not raise, and it appends exactly one CHAT event that carries
\* the source the backend reported.
C19_ErrorReplyIsApology ==
    (ChatTurn /\ last.result.error) =>
        /\ ~last.raised
        /\ Len(chatbot) = Len(last.history) + 2
        /\ chatbot[Len(chatbot)].role = "assistant"
        /\ chatbot[Len(chatbot)].content.text = Apology
        /\ Len(audit) = last.before + 1
        /\ audit[Len(audit)].action_type = "CHAT"
        /\ audit[Len(audit)].ai_source = Some(last.result.source)

C19_Witness ==
    /\ ChatTurn
    /\ last.result.error
    /\ last.result.text = DictVal(Some(ScalarNone), None)
    /\ last.result.source = "bedrock"
    /\ Len(chatbot) = 2
    /\ chatbot[2].content.text = Apology
    /\ Len(audit) = 1
    /\ audit[1].ai_source = Some("bedrock")

\* a load in which a fetch raised
C20_FailedLoad == last.op = "reload" /\ last.fail_at > 0

C20_Slots(k) == { i \in DOMAIN load_layout(telemetry.view) : load_layout(telemetry.view)[i].k = k }

\* C20: when a fetch of a view load raises, the handler returns: every
\* chart is the empty placeholder, the status is the warning with at most
\* 120 characters of exception text (the first 120 when there are more), and
\* no output, and nothing on the page, is a value derived in that load.
C20_FailedLoadIsDegraded ==
    C20_FailedLoad =>
        LET d == The(derived)
        IN  /\ ~last.ok
            /\ DOMAIN d.outs = DOMAIN load_layout(telemetry.view)
            /\ \A i \in C20_Slots("fig") : d.outs[i] = Some(EmptyFig)
            /\ \A i \in C20_Slots("status") :
                 /\ d.outs[i] # None
                 /\ The(d.outs[i]).v = "warning"
                 /\ The(d.outs[i]).len <= EXC_CHARS
                 /\ The(d.outs[i]).len <= last.exc_len
                 /\ The(d.outs[i]).len \in {EXC_CHARS, last.exc_len}
            /\ \A i \in DOMAIN d.outs : \A o \in d.outs[i] : o.v # "derived"
            /\ \A i \in DOMAIN d.screen : d.screen[i].from # d.loads

C20_Witness ==
    /\ C20_FailedLoad
    /\ telemetry.view = "load_charts"
    /\ last.fail_at = 3
    /\ last.exc_len = 2 * EXC_CHARS
    /\ The(derived).loads = 2
    /\ The(derived).screen[5] = Derived("table", 1)
    /\ The(derived).screen[6] = Warning(EXC_CHARS)
    /\ The(derived).screen[1] = EmptyFig

\* ---------------------------------------------------------------------------
\* Invalid input, policy reads, the gate and the audit trail: properties
\* ---------------------------------------------------------------------------
\* C21: a malformed or empty series handed to a scoring computation gives an
\* outcome that can be told apart from a failed fetch: a load all of whose
\* fetches returned never ends in the degraded state (warning status, empty
\* charts) that a failed fetch produces.
C21_InvalidInputIsDistinct ==
    (last.op \in ViewLoadOps /\ ~last.f.fail) =>
        ~(last.status = "warning" /\ last.charts = "empty")

\* C22: the policy is read fresh at every decision: an access request is
\* addressed to the admin_email the policy resource holds when the request
\* is made.
C22_RequestReadsPolicyFresh ==
    last.op = "send_request" =>
        The(derived).to = get_admin_email(telemetry.file)

\* C23: an identity that resolves to no_access, an anonymous request
\* included, never obtains an assistant answer through the chat panel: no
\* assistant call is in flight for it and its chat history stays empty.
C23_NoAccessGetsNoAnswer ==
    Role(user) = "no_access" =>
        /\ running = {}
        /\ chatbot = <<>>
        /\ \A i \in DOMAIN audit : audit[i].action_type # "CHAT"

\* C24: the role written to an audit event is the role the gate resolves for
\* the identity of the request, no_access for an absent identity.
C24_AuditRoleIsGateRole ==
    \A i \in DOMAIN audit : audit[i].user_role = Role(user)

\* C25: on page load the dashboard is fetched (load_charts runs) only when
\* the gate made the Overview visible to the caller.
C25_DashboardOnlyWhenVisible ==
    (PageLoaded /\ ~last.raised /\ last.dash # None) => visible[1]

\* C26: every handler run that fetches telemetry for display leaves a
\* trace in the audit trail: a generation of the maintenance schedule
\* appends an audit event.
C26_ScheduleIsAudited ==
    last.op = "generate_schedule" => Len(audit) > 0

\* ---------------------------------------------------------------------------
\* Chat history, rejected messages, schedule order, redraws: properties
\* ---------------------------------------------------------------------------
\* C27: the chat history has even length and alternates user and assistant
\* messages, the first a user message; every accepted respond appends one
\* user message and one assistant message to the history it was given and
\* changes none of it; Clear Chat empties the history, the message box, the
\* conversation id and the source label.
C27_ChatAlternates ==
    /\ Len(chatbot) % 2 = 0
    /\ \A i \in DOMAIN chatbot :
         chatbot[i].role = (IF i % 2 = 1 THEN "user" ELSE "assistant")
    /\ ChatTurn =>
         /\ Len(chatbot) = Len(last.history) + 2
         /\ SubSeq(chatbot, 1, Len(last.history)) = last.history
         /\ chatbot[Len(chatbot) - 1] =
                Msg("user", MessageText(StripMessage(last.message)), None)
    /\ last.op = "clear" =>
         /\ chatbot = <<>>
         /\ msg_box = ""
         /\ conv_id_state = None
         /\ source_label = ""

\* the message is empty after stripping or longer than 2000 characters
C28_Unacceptable(m) ==
    MessageLen(StripMessage(m)) = 0 \/ MessageLen(StripMessage(m)) > MAX_MESSAGE_LEN

\* C28: a submission whose message is empty after stripping white space or
\* longer than 2000 characters is a no-op: no assistant call is made, no
\* audit event is appended, the history and the conversation id come back
\* unchanged and the source label is empty.
C28_RejectedIsNoOp ==
    (last.op = "respond" /\ C28_Unacceptable(last.message)) =>
        /\ ~last.accepted
        /\ ~last.called
        /\ running = {}
        /\ Len(audit) = last.before
        /\ chatbot = last.history
        /\ conv_id_state = last.conv_id
        /\ source_label = ""

\* an over-long question after an answered one
C28_Witness ==
    /\ last.op = "respond"
    /\ ~last.accepted
    /\ last.message.body = "long"
    /\ last.message.pad
    /\ Len(chatbot) = 2
    /\ Len(audit) = 1
    /\ conv_id_state = Some("c1")
    /\ source_label = ""

C29_Severity(priority) ==
    CASE priority = "URGENT" -> 3
      [] priority = "HIGH" -> 2
      [] priority = "MEDIUM" -> 1

\* C29: a more degraded engine is never scheduled later than a less
\* degraded one: of two tasks the one with the smaller RUL has no larger
\* offset and no less severe priority; every task is at least one day ahead.
C29_ScheduleIsMonotone ==
    (last.op = "generate_schedule" /\ ~last.fails) =>
        LET rows == The(sched_tbl).rows
        IN  /\ \A i \in DOMAIN rows : rows[i].days >= 1
            /\ \A i, j \in DOMAIN rows :
                 rows[i].rul <= rows[j].rul =>
                     /\ rows[i].days <= rows[j].days
                     /\ C29_Severity(rows[i].priority) >= C29_Severity(rows[j].priority)

\* engines with RUL 31, 30 and -5: 18 days, 15 days and 1 day ahead
C29_Witness ==
    /\ last.op = "generate_schedule"
    /\ ~last.fails
    /\ Len(fleet) = 3
    /\ fleet[1].remaining_rul = 31
    /\ fleet[2].remaining_rul = 30
    /\ fleet[3].remaining_rul = 0 - 5
    /\ Len(The(sched_tbl).rows) = 3
    /\ The(sched_tbl).rows[1].days = 18
    /\ The(sched_tbl).rows[2].days = 15
    /\ The(sched_tbl).rows[2].priority = "HIGH"
    /\ The(sched_tbl).rows[3].days = 1
    /\ The(sched_tbl).rows[3].rul = 0

\* the latest load of the view ended in its except branch
C30_LastLoadFailed ==
    \E i \in DOMAIN The(derived).outs : \E o \in The(derived).outs[i] : o.v = "warning"

\* the listener filters by a selection
C30_Selects(fn) == fn # "redraw_health_bar"

\* C30: a redraw works only from the table the last load cached: it
\* appends no audit event; with nothing cached or nothing selected every
\* figure it returns is empty; any other figure is drawn from the table of
\* the latest load; and after a load that failed every figure is empty.
C30_RedrawFromCacheOnly ==
    last.op = "redraw" =>
        /\ Len(audit) = last.before
        /\ (last.cache.v # "derived" \/ (C30_Selects(last.fn) /\ ~last.selected)) =>
             \A j \in DOMAIN last.figs : last.figs[j] = EmptyFig
        /\ \A j \in DOMAIN last.figs :
             last.figs[j] # EmptyFig =>
                 /\ last.figs[j].from = The(derived).loads
                 /\ last.figs[j].from > 0
        /\ C30_LastLoadFailed => \A j \in DOMAIN last.figs : last.figs[j] = EmptyFig

\* a load that succeeded, one that failed, then a toggle with items ticked
C30_Witness ==
    /\ last.op = "redraw"
    /\ last.fn = "redraw_fault_chart"
    /\ last.selected
    /\ telemetry.view = "load_charts"
    /\ The(derived).loads = 2
    /\ C30_LastLoadFailed
    /\ The(derived).screen[5] = Derived("table", 1)
    /\ last.cache = NoneState
    /\ last.figs = <<EmptyFig>>

====
